---- MODULE Spec2Model ----
(***************************************************************************)
(* Geometry resolution and coordinate remapping pipeline of PSD-Lab:       *)
(* the document tree adapter (getCleanLayerTree / findLayerByPath), the    *)
(* name resolver (resolveLayer) and the remapping engine (RemapperNode's   *)
(* transformationPayload).                                                  *)
(*                                                                         *)
(* JavaScript numbers are modelled as exact rationals extended with the    *)
(* IEEE-754 non-finite values NaN, +Infinity and -Infinity; the sign of   *)
(* zero is not modelled.  The arithmetic is exact, except in the pipeline  *)
(* runs, whose remap rounds every operation (see Rounded arithmetic).      *)
(***************************************************************************)
EXTENDS Integers, Sequences, FiniteSets, TLC

VARIABLES
    sourceData,     \* RemapperNode: resolved source context (bounds + layers) or None
    targetData,     \* RemapperNode: resolved target slot (bounds) or None
    payload,        \* RemapperNode: transformationPayload, None when not ready
    psd,            \* the parsed document (ag-psd Psd): [children]
    designLayers,   \* LoadPSDNode data.designLayers: None until a document is loaded
    layerId,        \* the layer id last handed to findLayerByPath, None before
    found,          \* the result of that findLayerByPath: Some(layer) or None (null)
    template,       \* LoadPSDNode data.template (TemplateMetadata), None before
    validation,     \* LoadPSDNode data.validation (DesignValidationReport), None before
    containerContext, \* the last createContainerContext result, None (null) before
    activePayloads, \* ExportPSDNode: the payloads of the connected remappers
    psdRegistry,    \* ExportPSDNode: source documents by node id (None: not registered)
    newPsd,         \* ExportPSDNode: the document handed to writePsdFile, None before
    exportError,    \* ExportPSDNode: exportError state, None for null
    templateName,   \* the container name handed to resolveLayer
    designTree,     \* the design layer list handed to resolveLayer, None for null
    matchedGroup,   \* the result of resolveLayer, None (null) before the call
    resolution,     \* the {layer, status} result of the diagnostic resolveLayer
    channel,        \* ContainerResolverNode: the state of the connected channel
    mappingContext, \* the MappingContext handed on for a resolved container
    layoutStrategy, \* the LayoutStrategy supplied to a remap, None when there is none
    templateRegistry, \* ProceduralStore: TemplateMetadata by node id
    resolvedRegistry, \* ProceduralStore: MappingContext by node id and handle id
    fileName,       \* LoadPSDNode data.fileName, None before a load completes
    nodeError,      \* LoadPSDNode data.error, None for null
    isLoading,      \* LoadPSDNode: isLoading state
    localError,     \* LoadPSDNode: localError state, None for null
    inFlight,       \* LoadPSDNode: the parsePsdFile promises that have not settled
    sourceLayerGroup, \* RemapperNode: the group its sourceContext finds, None before
    edges,          \* App: the edges of the graph
    connects,       \* App: the number of onConnect calls so far
    storedPayload,  \* RemapperNode data.transformedPayload as the node data holds it
    writes,         \* RemapperNode: the number of setNodes writes of the sync effect
    pc              \* position of the run: "idle" before the operation

remapVars == <<sourceData, targetData, payload>>
treeVars == <<psd, designLayers, layerId, found, template, validation, containerContext>>
exportVars == <<activePayloads, psdRegistry, newPsd, exportError>>
resolverVars == <<templateName, designTree, matchedGroup, resolution, channel, mappingContext>>
storeVars == <<templateRegistry, resolvedRegistry>>
loaderVars == <<fileName, nodeError, isLoading, localError, inFlight>>
graphVars == <<edges, connects>>
syncVars == <<storedPayload, writes>>
hostVars == <<layoutStrategy, storeVars, loaderVars, sourceLayerGroup, graphVars, syncVars>>
vars == <<sourceData, targetData, payload, psd, designLayers, layerId, found,
          template, validation, containerContext, activePayloads, psdRegistry,
          newPsd, exportError, templateName, designTree, matchedGroup, resolution,
          channel, mappingContext, layoutStrategy, templateRegistry, resolvedRegistry,
          fileName, nodeError, isLoading, localError, inFlight, sourceLayerGroup,
          edges, connects, storedPayload, writes, pc>>

(***************************************************************************)
(* Bounds of the model.                                                    *)
(***************************************************************************)
MaxDim == 3          \* container widths/heights are 0, 50, 100, .. 25*2^MaxDim
MaxNodes == 4        \* layers of a document, over all depths
MaxNameLen == 3      \* characters of a requested container name

(***************************************************************************)
(* Optional values: `undefined`/`null` is the empty sequence.              *)
(***************************************************************************)
None == <<>>
Some(v) == <<v>>
IsSome(m) == Len(m) = 1
Val(m) == m[1]

(***************************************************************************)
(* JavaScript numbers.                                                     *)
(***************************************************************************)
Abs(i) == IF i < 0 THEN -i ELSE i
Sign(i) == IF i < 0 THEN -1 ELSE IF i = 0 THEN 0 ELSE 1

RECURSIVE GCD(_, _)
GCD(a, b) == IF b = 0 THEN a ELSE GCD(b, a % b)

NaN == [k |-> "nan", n |-> 0, d |-> 1]
Inf(s) == [k |-> "inf", n |-> s, d |-> 1]
Frac(n, d) ==
    LET s == IF d < 0 THEN -1 ELSE 1
        g == GCD(Abs(n), Abs(d))
    IN  [k |-> "fin", n |-> (s * n) \div g, d |-> (s * d) \div g]
Num(i) == [k |-> "fin", n |-> i, d |-> 1]

IsFinite(a) == a.k = "fin"
IsNaN(a) == a.k = "nan"
SignOf(a) == Sign(a.n)

Add(a, b) ==
    IF IsNaN(a) \/ IsNaN(b) THEN NaN
    ELSE IF a.k = "inf" /\ b.k = "inf" THEN (IF a.n = b.n THEN a ELSE NaN)
    ELSE IF a.k = "inf" THEN a
    ELSE IF b.k = "inf" THEN b
    ELSE Frac(a.n * b.d + b.n * a.d, a.d * b.d)

Neg(a) == IF IsNaN(a) THEN NaN ELSE [a EXCEPT !.n = -a.n]
Sub(a, b) == Add(a, Neg(b))

Mul(a, b) ==
    IF IsNaN(a) \/ IsNaN(b) THEN NaN
    ELSE IF a.k = "inf" \/ b.k = "inf"
         THEN (IF SignOf(a) * SignOf(b) = 0 THEN NaN ELSE Inf(SignOf(a) * SignOf(b)))
    ELSE Frac(a.n * b.n, a.d * b.d)

Div(a, b) ==
    IF IsNaN(a) \/ IsNaN(b) THEN NaN
    ELSE IF a.k = "inf" /\ b.k = "inf" THEN NaN
    ELSE IF a.k = "inf" THEN Inf(IF SignOf(b) < 0 THEN -a.n ELSE a.n)
    ELSE IF b.k = "inf" THEN Num(0)
    ELSE IF b.n = 0 THEN (IF a.n = 0 THEN NaN ELSE Inf(SignOf(a)))
    ELSE Frac(a.n * b.d, a.d * b.n)

\* a <= b on non-NaN values
Leq(a, b) ==
    IF a.k = "inf" THEN (a.n < 0 \/ (b.k = "inf" /\ b.n > 0))
    ELSE IF b.k = "inf" THEN b.n > 0
    ELSE a.n * b.d <= b.n * a.d

\* Math.min: NaN if either argument is NaN
MathMin(a, b) ==
    IF IsNaN(a) \/ IsNaN(b) THEN NaN
    ELSE IF Leq(a, b) THEN a ELSE b

(***************************************************************************)
(* Strings are sequences of one-character strings, so that replace, trim,  *)
(* toLowerCase, split and Number act on characters as the code's do.       *)
(***************************************************************************)
TEMPLATE_NAME == <<"!", "!", "T", "E", "M", "P", "L", "A", "T", "E">>
UNTITLED == <<"U", "n", "t", "i", "t", "l", "e", "d">>
LAYER_PREFIX == <<"l", "a", "y", "e", "r", "-">>
DigitChars == <<"0", "1", "2", "3", "4", "5", "6", "7", "8", "9">>

\* String(index) for a non-negative integer: its decimal digits
RECURSIVE IntToStr(_)
IntToStr(i) ==
    IF i < 10 THEN <<DigitChars[i + 1]>>
    ELSE IntToStr(i \div 10) \o <<DigitChars[(i % 10) + 1]>>

IsDigit(c) == \E k \in 1..10 : DigitChars[k] = c
DigitVal(c) == (CHOOSE k \in 1..10 : DigitChars[k] = c) - 1

RECURSIVE DigitsVal(_)
DigitsVal(s) ==
    IF s = <<>> THEN 0
    ELSE 10 * DigitsVal(SubSeq(s, 1, Len(s) - 1)) + DigitVal(s[Len(s)])

AllDigits(s) == s # <<>> /\ \A k \in 1..Len(s) : IsDigit(s[k])

\* Number(segment): "" is 0, a decimal literal (with an optional sign) is its
\* value, anything else over the model's alphabet is NaN (None).
StrToNumber(s) ==
    IF s = <<>> THEN Some(0)
    ELSE IF AllDigits(s) THEN Some(DigitsVal(s))
    ELSE IF s[1] \in {"-", "+"} /\ AllDigits(Tail(s))
         THEN Some((IF s[1] = "-" THEN -1 ELSE 1) * DigitsVal(Tail(s)))
    ELSE None

\* s.replace(pat, '') : removes the first occurrence of pat
MatchAt(s, pat, i) == i + Len(pat) - 1 <= Len(s) /\ SubSeq(s, i, i + Len(pat) - 1) = pat
RemoveFirst(s, pat) ==
    IF \E i \in 1..Len(s) : MatchAt(s, pat, i)
    THEN LET i == CHOOSE j \in 1..Len(s) :
                    MatchAt(s, pat, j) /\ \A h \in 1..(j - 1) : ~MatchAt(s, pat, h)
         IN  SubSeq(s, 1, i - 1) \o SubSeq(s, i + Len(pat), Len(s))
    ELSE s

\* s.split('.') : the segments between the dots (one segment when there is no dot)
RECURSIVE SplitDots(_)
SplitDots(s) ==
    IF \E i \in 1..Len(s) : s[i] = "."
    THEN LET i == CHOOSE j \in 1..Len(s) : s[j] = "." /\ \A h \in 1..(j - 1) : s[h] # "."
         IN  <<SubSeq(s, 1, i - 1)>> \o SplitDots(SubSeq(s, i + 1, Len(s)))
    ELSE <<s>>

(***************************************************************************)
(* Document Tree Adapter.                                                  *)
(* An ag-psd Layer is a record                                             *)
(*   [name, top, left, bottom, right, hidden, opacity, children, ref]      *)
(* whose optional fields are None when undefined; ref stands for the       *)
(* object's identity (its pixel payload).                                  *)
(***************************************************************************)
\* a document without a children array
EmptyPsd == [width |-> None, height |-> None, children |-> None]

OrZero(m) == IF IsSome(m) THEN Val(m) ELSE 0

\* child.name || 'Untitled'
NameOr(m, dflt) == IF IsSome(m) /\ Val(m) # <<>> THEN Val(m) ELSE dflt

RECURSIVE getCleanLayerTree(_, _)
RECURSIVE CleanFrom(_, _, _)

\* the forEach loop of getCleanLayerTree from child number i (1-based) on
CleanFrom(layers, path, i) ==
    IF i > Len(layers) THEN <<>>
    ELSE LET child == layers[i]
             index == i - 1
             currentPath == IF path # <<>> THEN path \o <<".">> \o IntToStr(index)
                            ELSE IntToStr(index)
             top == OrZero(child.top)
             left == OrZero(child.left)
             bottom == OrZero(child.bottom)
             right == OrZero(child.right)
             node == [id |-> LAYER_PREFIX \o currentPath,
                      name |-> NameOr(child.name, UNTITLED),
                      type |-> IF IsSome(child.children) THEN "group" ELSE "layer",
                      isVisible |-> child.hidden # Some(TRUE),
                      opacity |-> IF IsSome(child.opacity)
                                  THEN Frac(Val(child.opacity), 255) ELSE Num(1),
                      coords |-> [x |-> Num(left), y |-> Num(top),
                                  w |-> Num(right - left), h |-> Num(bottom - top)],
                      children |-> IF IsSome(child.children)
                                   THEN Some(getCleanLayerTree(Val(child.children), currentPath))
                                   ELSE None]
         IN  IF child.name = Some(TEMPLATE_NAME)
             THEN CleanFrom(layers, path, i + 1)
             ELSE <<node>> \o CleanFrom(layers, path, i + 1)

IsTemplate(layer) == layer.name = Some(TEMPLATE_NAME)

\* mutant of getCleanLayerTree: the template group is filtered out first, so
\* the paths count the emitted siblings instead of the original ones
getCleanLayerTreeCompact(layers, path) ==
    CleanFrom(SelectSeq(layers, LAMBDA l : ~IsTemplate(l)), path, 1)

\* mutant of getCleanLayerTree: the id of a layer is built from its own
\* sibling index, without the path of its parent
getCleanLayerTreeLocalIds(layers, path) == CleanFrom(layers, <<>>, 1)

\* mutant of getCleanLayerTree: the walk stops at the template group
\* instead of skipping it
getCleanLayerTreeStop(layers, path) ==
    LET at == {i \in 1..Len(layers) : IsTemplate(layers[i])}
        stop == IF at = {} THEN Len(layers) + 1
                ELSE CHOOSE i \in at : \A j \in at : i <= j
    IN  CleanFrom(SubSeq(layers, 1, stop - 1), path, 1)

getCleanLayerTree(layers, path) == CleanFrom(layers, path, 1)

\* the for loop of findLayerByPath from step i on; found is the node reached so far
RECURSIVE WalkPath(_, _, _, _)
WalkPath(indices, i, currentChildren, foundLayer) ==
    IF i > Len(indices) THEN foundLayer
    ELSE LET idx == indices[i]
         IN  IF ~IsSome(currentChildren) \/ ~IsSome(idx)
                \/ Val(idx) < 0 \/ Val(idx) >= Len(Val(currentChildren))
             THEN None
             ELSE LET next == Val(currentChildren)[Val(idx) + 1]
                  IN  WalkPath(indices, i + 1, next.children, Some(next))

\* findLayerByPath(psd, layerId): Some(layer) or None (null)
findLayerByPath(doc, id) ==
    LET pathStr == RemoveFirst(id, LAYER_PREFIX)
    IN  IF pathStr = <<>> THEN None
        ELSE LET segs == SplitDots(pathStr)
                 indices == [k \in 1..Len(segs) |-> StrToNumber(segs[k])]
             IN  WalkPath(indices, 1, doc.children, None)

(***************************************************************************)
(* Template metadata and design validation (psdService).                   *)
(***************************************************************************)
CONTAINER_PREFIX == <<"c", "o", "n", "t", "a", "i", "n", "e", "r", "-">>
UNTITLED_LAYER == UNTITLED \o <<" ", "L", "a", "y", "e", "r">>
MARKER == <<"!", "!">>

\* rawName.replace(/^!!/, ''): two leading '!' are removed, once
StripMarkerPrefix(s) == IF MatchAt(s, MARKER, 1) THEN SubSeq(s, 3, Len(s)) ELSE s

\* s.replace(/\s+/g, '_'): every run of whitespace becomes one underscore
RECURSIVE CollapseWhitespace(_)
CollapseWhitespace(s) ==
    IF s = <<>> THEN <<>>
    ELSE IF s[1] = " "
    THEN IF Len(s) > 1 /\ s[2] = " " THEN CollapseWhitespace(Tail(s))
         ELSE <<"_">> \o CollapseWhitespace(Tail(s))
    ELSE <<s[1]>> \o CollapseWhitespace(Tail(s))

\* mutant of DimOrOne: a missing size is reported as 0
DimOrZero(m) == IF IsSome(m) THEN Val(m) ELSE 0

\* psd.width || 1
DimOrOne(m) == IF IsSome(m) /\ Val(m) # 0 THEN Val(m) ELSE 1

\* the body of templateGroup.children.forEach for the child at index
containerOf(child, index, canvasWidth, canvasHeight) ==
    LET top == OrZero(child.top)
        left == OrZero(child.left)
        bottom == OrZero(child.bottom)
        right == OrZero(child.right)
        width == right - left
        height == bottom - top
        rawName == NameOr(child.name, UNTITLED)
        cleanName == StripMarkerPrefix(rawName)
    IN  [id |-> CONTAINER_PREFIX \o IntToStr(index) \o <<"-">> \o CollapseWhitespace(cleanName),
         name |-> cleanName,
         originalName |-> rawName,
         bounds |-> [x |-> left, y |-> top, w |-> width, h |-> height],
         normalized |-> [x |-> Div(Num(left), Num(canvasWidth)),
                         y |-> Div(Num(top), Num(canvasHeight)),
                         w |-> Div(Num(width), Num(canvasWidth)),
                         h |-> Div(Num(height), Num(canvasHeight))]]

\* mutant of templateGroupOf: the first child counts as the template group
\* whatever its name
templateGroupOfAnyName(doc) ==
    IF ~IsSome(doc.children) \/ Len(Val(doc.children)) = 0 THEN None
    ELSE Some(Val(doc.children)[1])

\* psd.children?.find(child => child.name === '!!TEMPLATE')
templateGroupOf(doc) ==
    IF ~IsSome(doc.children) THEN None
    ELSE LET hits == {i \in 1..Len(Val(doc.children)) : IsTemplate(Val(doc.children)[i])}
         IN  IF hits = {} THEN None
             ELSE Some(Val(doc.children)[CHOOSE i \in hits : \A j \in hits : i <= j])

extractTemplateMetadata(doc) ==
    LET canvasWidth == DimOrOne(doc.width)
        canvasHeight == DimOrOne(doc.height)
        templateGroup == templateGroupOf(doc)
        containers ==
            IF IsSome(templateGroup) /\ IsSome(Val(templateGroup).children)
            THEN [i \in 1..Len(Val(Val(templateGroup).children)) |->
                    containerOf(Val(Val(templateGroup).children)[i], i - 1,
                                canvasWidth, canvasHeight)]
            ELSE <<>>
    IN  [canvas |-> [width |-> canvasWidth, height |-> canvasHeight],
         containers |-> containers]

\* createContainerContext(template, containerName)
createContainerContext(templateData, containerName) ==
    LET hits == {i \in 1..Len(templateData.containers) :
                    templateData.containers[i].name = containerName}
    IN  IF hits = {} THEN None
        ELSE LET container == templateData.containers[CHOOSE i \in hits : \A j \in hits : i <= j]
             IN  Some([containerName |-> container.name,
                       bounds |-> container.bounds,
                       canvasDimensions |-> [w |-> templateData.canvas.width,
                                             h |-> templateData.canvas.height]])

\* containerMap: Map.set in array order, so the last container of a name
\* is the one the name is mapped to
containerMapHas(containers, name) == \E i \in 1..Len(containers) : containers[i].name = name
\* mutant of containerMapGet: the first container of a name stays in the map
containerMapGetFirst(containers, name) ==
    containers[CHOOSE i \in 1..Len(containers) :
                  /\ containers[i].name = name
                  /\ \A j \in 1..(i - 1) : containers[j].name # name]
containerMapGet(containers, name) ==
    containers[CHOOSE i \in 1..Len(containers) :
                  /\ containers[i].name = name
                  /\ \A j \in (i + 1)..Len(containers) : containers[j].name # name]

\* typeof top, left, bottom, right === 'number'
HasEdges(layer) ==
    IsSome(layer.top) /\ IsSome(layer.left) /\ IsSome(layer.bottom) /\ IsSome(layer.right)

\* mutant of isViolation: only a layer that escapes on both axes is flagged
isViolationEscaped(layer, container) ==
    LET containerRight == container.bounds.x + container.bounds.w
        containerBottom == container.bounds.y + container.bounds.h
    IN  /\ Val(layer.left) < container.bounds.x \/ Val(layer.right) > containerRight
        /\ Val(layer.top) < container.bounds.y \/ Val(layer.bottom) > containerBottom

isViolation(layer, container) ==
    LET containerRight == container.bounds.x + container.bounds.w
        containerBottom == container.bounds.y + container.bounds.h
    IN  \/ Val(layer.left) < container.bounds.x
        \/ Val(layer.top) < container.bounds.y
        \/ Val(layer.right) > containerRight
        \/ Val(layer.bottom) > containerBottom

\* group.children?.forEach from child i on: the issues pushed (the message
\* text is left out)
RECURSIVE issuesOfChildren(_, _, _)
issuesOfChildren(children, container, i) ==
    IF i > Len(children) THEN <<>>
    ELSE LET layer == children[i]
         IN  (IF HasEdges(layer) /\ isViolation(layer, container)
              THEN <<[layerName |-> NameOr(layer.name, UNTITLED_LAYER),
                      containerName |-> container.name,
                      type |-> "PROCEDURAL_VIOLATION"]>>
              ELSE <<>>) \o issuesOfChildren(children, container, i + 1)

\* psd.children?.forEach from group i on
\* mutant of issuesOfGroups: nested layers of a matched group are validated too
RECURSIVE issuesOfGroupsDeep(_, _, _)
issuesOfGroupsDeep(groups, containers, i) ==
    IF i > Len(groups) THEN <<>>
    ELSE LET group == groups[i]
             RECURSIVE deep(_, _, _)
             deep(children, container, k) ==
                 IF k > Len(children) THEN <<>>
                 ELSE issuesOfChildren(<<children[k]>>, container, 1)
                      \o (IF IsSome(children[k].children)
                          THEN deep(Val(children[k].children), container, 1) ELSE <<>>)
                      \o deep(children, container, k + 1)
         IN  (IF IsTemplate(group) THEN <<>>
              ELSE IF IsSome(group.name) /\ Val(group.name) # <<>>
                      /\ containerMapHas(containers, Val(group.name))
                      /\ IsSome(group.children)
              THEN deep(Val(group.children),
                        containerMapGet(containers, Val(group.name)), 1)
              ELSE <<>>) \o issuesOfGroupsDeep(groups, containers, i + 1)

RECURSIVE issuesOfGroups(_, _, _)
issuesOfGroups(groups, containers, i) ==
    IF i > Len(groups) THEN <<>>
    ELSE LET group == groups[i]
         IN  (IF IsTemplate(group) THEN <<>>
              ELSE IF IsSome(group.name) /\ Val(group.name) # <<>>
                      /\ containerMapHas(containers, Val(group.name))
                      /\ IsSome(group.children)
              THEN issuesOfChildren(Val(group.children),
                                    containerMapGet(containers, Val(group.name)), 1)
              ELSE <<>>) \o issuesOfGroups(groups, containers, i + 1)

mapLayersToContainers(doc, templateData) ==
    LET issues == IF IsSome(doc.children)
                  THEN issuesOfGroups(Val(doc.children), templateData.containers, 1)
                  ELSE <<>>
    IN  [isValid |-> Len(issues) = 0, issues |-> issues]

(***************************************************************************)
(* Remapping Engine: RemapperNode.transformationPayload.                   *)
(* A rectangle is [x, y, w, h] of integers (ContainerDefinition.bounds).   *)
(***************************************************************************)
\* const ratioX = targetRect.w / sourceRect.w
ratioX(sourceRect, targetRect) == Div(Num(targetRect.w), Num(sourceRect.w))
\* const ratioY = targetRect.h / sourceRect.h
ratioY(sourceRect, targetRect) == Div(Num(targetRect.h), Num(sourceRect.h))
\* mutant of scaleOf: fill (Math.max) instead of fit (Math.min)
scaleOfMax(sourceRect, targetRect) ==
    LET rx == ratioX(sourceRect, targetRect)
        ry == ratioY(sourceRect, targetRect)
    IN  IF IsNaN(rx) \/ IsNaN(ry) THEN NaN ELSE IF Leq(rx, ry) THEN ry ELSE rx

\* const scale = Math.min(ratioX, ratioY)
scaleOf(sourceRect, targetRect) ==
    MathMin(ratioX(sourceRect, targetRect), ratioY(sourceRect, targetRect))

\* mutant of transformOne: the position is scaled by the uniform scale and
\* centred in the target instead of projected onto the target's dimensions
transformOneAnchored(layer, sourceRect, targetRect, scale) ==
    LET anchorX == Add(Num(targetRect.x),
                       Div(Sub(Num(targetRect.w), Mul(Num(sourceRect.w), scale)), Num(2)))
        anchorY == Add(Num(targetRect.y),
                       Div(Sub(Num(targetRect.h), Mul(Num(sourceRect.h), scale)), Num(2)))
        newX == Add(anchorX, Mul(Sub(layer.coords.x, Num(sourceRect.x)), scale))
        newY == Add(anchorY, Mul(Sub(layer.coords.y, Num(sourceRect.y)), scale))
    IN  [id |-> layer.id, name |-> layer.name, type |-> layer.type,
         isVisible |-> layer.isVisible, opacity |-> layer.opacity,
         coords |-> [x |-> newX, y |-> newY,
                     w |-> Mul(layer.coords.w, scale), h |-> Mul(layer.coords.h, scale)],
         transform |-> [scaleX |-> scale, scaleY |-> scale,
                        offsetX |-> newX, offsetY |-> newY]]

\* the body of transformLayers' map callback, without the children
transformOne(layer, sourceRect, targetRect, scale) ==
    LET relX == Div(Sub(layer.coords.x, Num(sourceRect.x)), Num(sourceRect.w))
        relY == Div(Sub(layer.coords.y, Num(sourceRect.y)), Num(sourceRect.h))
        newX == Add(Num(targetRect.x), Mul(relX, Num(targetRect.w)))
        newY == Add(Num(targetRect.y), Mul(relY, Num(targetRect.h)))
        newW == Mul(layer.coords.w, scale)
        newH == Mul(layer.coords.h, scale)
    IN  [id |-> layer.id, name |-> layer.name, type |-> layer.type,
         isVisible |-> layer.isVisible, opacity |-> layer.opacity,
         coords |-> [x |-> newX, y |-> newY, w |-> newW, h |-> newH],
         transform |-> [scaleX |-> scale, scaleY |-> scale,
                        offsetX |-> newX, offsetY |-> newY]]

RECURSIVE transformLayers(_, _, _, _)
\* mutant of transformLayers: siblings come out in reverse order
transformLayersReversed(layers, sourceRect, targetRect, scale) ==
    [i \in 1..Len(layers) |->
        LET layer == layers[Len(layers) + 1 - i]
            t == transformOne(layer, sourceRect, targetRect, scale)
        IN  [id |-> t.id, name |-> t.name, type |-> t.type,
             isVisible |-> t.isVisible, opacity |-> t.opacity,
             coords |-> t.coords, transform |-> t.transform,
             children |-> IF IsSome(layer.children)
                          THEN Some(transformLayers(Val(layer.children),
                                                    sourceRect, targetRect, scale))
                          ELSE None]]

transformLayers(layers, sourceRect, targetRect, scale) ==
    [i \in 1..Len(layers) |->
        LET layer == layers[i]
            t == transformOne(layer, sourceRect, targetRect, scale)
        IN  [id |-> t.id, name |-> t.name, type |-> t.type,
             isVisible |-> t.isVisible, opacity |-> t.opacity,
             coords |-> t.coords, transform |-> t.transform,
             children |-> IF IsSome(layer.children)
                          THEN Some(transformLayers(Val(layer.children),
                                                    sourceRect, targetRect, scale))
                          ELSE None]]

\* transformationPayload: None (null) unless both inputs are resolved
transformationPayload(src, tgt) ==
    IF ~IsSome(src) \/ ~IsSome(tgt) THEN None
    ELSE LET sourceRect == Val(src).originalBounds
             targetRect == Val(tgt).bounds
             scale == scaleOf(sourceRect, targetRect)
         IN  Some([status |-> "success",
                   sourceNodeId |-> Val(src).sourceNodeId,
                   sourceContainer |-> Val(src).containerName,
                   targetContainer |-> Val(tgt).containerName,
                   layers |-> transformLayers(Val(src).layers, sourceRect, targetRect, scale),
                   scaleFactor |-> scale,
                   metrics |-> [source |-> [w |-> sourceRect.w, h |-> sourceRect.h],
                                target |-> [w |-> targetRect.w, h |-> targetRect.h]]])

(***************************************************************************)
(* The remap under a LayoutStrategy.  The sources hold the strategy's      *)
(* schema (DesignAnalystNode) and its registration, but no remapper that   *)
(* reads it; the overlay is modelled from the specification's remap:       *)
(* the scale is the suggested scale, the content is centred horizontally   *)
(* and anchored vertically as the strategy says, and a layer named by an   *)
(* override is shifted and scaled on top of that.                          *)
(***************************************************************************)
\* the first override whose layerId is the given id, or None
overrideOf(strategy, id) ==
    LET hits == {i \in 1..Len(strategy.overrides) : strategy.overrides[i].layerId = id}
    IN  IF hits = {} THEN None
        ELSE Some(strategy.overrides[CHOOSE i \in hits : \A j \in hits : i <= j])

anchorXOf(sourceRect, targetRect, scale) ==
    Add(Num(targetRect.x),
        Div(Sub(Num(targetRect.w), Mul(Num(sourceRect.w), scale)), Num(2)))

anchorYOf(sourceRect, targetRect, scale, anchor) ==
    IF anchor = "TOP" THEN Num(targetRect.y)
    ELSE IF anchor = "BOTTOM"
    THEN Sub(Add(Num(targetRect.y), Num(targetRect.h)), Mul(Num(sourceRect.h), scale))
    ELSE Add(Num(targetRect.y),
             Div(Sub(Num(targetRect.h), Mul(Num(sourceRect.h), scale)), Num(2)))

\* mutant of strategyLayerOf: the individual scale of an override replaces
\* the global scale
strategyLayerOfReplacing(layer, sourceRect, targetRect, strategy) ==
    LET scale == strategy.suggestedScale
        override == overrideOf(strategy, layer.id)
        relX == Div(Sub(layer.coords.x, Num(sourceRect.x)), Num(sourceRect.w))
        relY == Div(Sub(layer.coords.y, Num(sourceRect.y)), Num(sourceRect.h))
        baseX == Add(anchorXOf(sourceRect, targetRect, scale),
                     Mul(Mul(relX, Num(sourceRect.w)), scale))
        baseY == Add(anchorYOf(sourceRect, targetRect, scale, strategy.anchor),
                     Mul(Mul(relY, Num(sourceRect.h)), scale))
        newX == IF IsSome(override) THEN Add(baseX, Val(override).xOffset) ELSE baseX
        newY == IF IsSome(override) THEN Add(baseY, Val(override).yOffset) ELSE baseY
        layerScale == IF IsSome(override) THEN Val(override).individualScale ELSE scale
    IN  [id |-> layer.id, name |-> layer.name, type |-> layer.type,
         isVisible |-> layer.isVisible, opacity |-> layer.opacity,
         coords |-> [x |-> newX, y |-> newY,
                     w |-> Mul(layer.coords.w, layerScale),
                     h |-> Mul(layer.coords.h, layerScale)],
         transform |-> [scaleX |-> layerScale, scaleY |-> layerScale,
                        offsetX |-> newX, offsetY |-> newY]]

\* one layer under the strategy, without its children
strategyLayerOf(layer, sourceRect, targetRect, strategy) ==
    LET scale == strategy.suggestedScale
        override == overrideOf(strategy, layer.id)
        relX == Div(Sub(layer.coords.x, Num(sourceRect.x)), Num(sourceRect.w))
        relY == Div(Sub(layer.coords.y, Num(sourceRect.y)), Num(sourceRect.h))
        baseX == Add(anchorXOf(sourceRect, targetRect, scale),
                     Mul(Mul(relX, Num(sourceRect.w)), scale))
        baseY == Add(anchorYOf(sourceRect, targetRect, scale, strategy.anchor),
                     Mul(Mul(relY, Num(sourceRect.h)), scale))
        newX == IF IsSome(override) THEN Add(baseX, Val(override).xOffset) ELSE baseX
        newY == IF IsSome(override) THEN Add(baseY, Val(override).yOffset) ELSE baseY
        layerScale == IF IsSome(override) THEN Mul(scale, Val(override).individualScale)
                      ELSE scale
    IN  [id |-> layer.id, name |-> layer.name, type |-> layer.type,
         isVisible |-> layer.isVisible, opacity |-> layer.opacity,
         coords |-> [x |-> newX, y |-> newY,
                     w |-> Mul(layer.coords.w, layerScale),
                     h |-> Mul(layer.coords.h, layerScale)],
         transform |-> [scaleX |-> layerScale, scaleY |-> layerScale,
                        offsetX |-> newX, offsetY |-> newY]]

RECURSIVE strategyLayers(_, _, _, _)
strategyLayers(layers, sourceRect, targetRect, strategy) ==
    [i \in 1..Len(layers) |->
        LET t == strategyLayerOf(layers[i], sourceRect, targetRect, strategy)
        IN  [id |-> t.id, name |-> t.name, type |-> t.type,
             isVisible |-> t.isVisible, opacity |-> t.opacity,
             coords |-> t.coords, transform |-> t.transform,
             children |-> IF IsSome(layers[i].children)
                          THEN Some(strategyLayers(Val(layers[i].children),
                                                   sourceRect, targetRect, strategy))
                          ELSE None]]

\* remap(sourceLayers, sourceRect, targetRect, strategy?): the payload of
\* the remapper when a strategy may be supplied
remap(src, tgt, strategy) ==
    IF ~IsSome(strategy) \/ ~IsSome(src) \/ ~IsSome(tgt)
    THEN transformationPayload(src, tgt)
    ELSE LET sourceRect == Val(src).originalBounds
             targetRect == Val(tgt).bounds
         IN  Some([status |-> "success",
                   sourceNodeId |-> Val(src).sourceNodeId,
                   sourceContainer |-> Val(src).containerName,
                   targetContainer |-> Val(tgt).containerName,
                   layers |-> strategyLayers(Val(src).layers, sourceRect, targetRect,
                                             Val(strategy)),
                   scaleFactor |-> Val(strategy).suggestedScale,
                   metrics |-> [source |-> [w |-> sourceRect.w, h |-> sourceRect.h],
                                target |-> [w |-> targetRect.w, h |-> targetRect.h]]])

(***************************************************************************)
(* ExportPSDNode.handleExport (src/services/psdService.ts): every payload  *)
(* is rebuilt from its source document, looked up in the registry by the   *)
(* payload's sourceNodeId.  A reconstructed layer carries numbers where    *)
(* the document carried optional integers.                                 *)
(***************************************************************************)
WRITE_FAILED == "write failed"

\* psdRegistry[sourceNodeId]: Some(document) or None (undefined)
registryGet(registry, sourceNodeId) ==
    IF sourceNodeId \in DOMAIN registry THEN Some(registry[sourceNodeId]) ELSE None

\* mutant of newLayerOf: the spread keeps the original children of a layer
\* that is not rebuilt as a group
newLayerOfKeepingChildren(originalLayer, metaLayer, rebuilt) ==
    [name |-> originalLayer.name, ref |-> originalLayer.ref,
     top |-> metaLayer.coords.y,
     left |-> metaLayer.coords.x,
     bottom |-> Add(metaLayer.coords.y, metaLayer.coords.h),
     right |-> Add(metaLayer.coords.x, metaLayer.coords.w),
     hidden |-> ~metaLayer.isVisible,
     opacity |-> Mul(metaLayer.opacity, Num(255)),
     children |-> IF IsSome(rebuilt) THEN rebuilt ELSE originalLayer.children]

\* { ...originalLayer, top, left, bottom, right, hidden, opacity, children };
\* name and ref are what the spread copies, rebuilt is the children value
newLayerOf(originalLayer, metaLayer, rebuilt) ==
    [name |-> originalLayer.name, ref |-> originalLayer.ref,
     top |-> metaLayer.coords.y,
     left |-> metaLayer.coords.x,
     bottom |-> Add(metaLayer.coords.y, metaLayer.coords.h),
     right |-> Add(metaLayer.coords.x, metaLayer.coords.w),
     hidden |-> ~metaLayer.isVisible,
     opacity |-> Mul(metaLayer.opacity, Num(255)),
     children |-> rebuilt]

RECURSIVE reconstructHierarchy(_, _)
RECURSIVE reconstructHierarchyAborting(_, _)
RECURSIVE ReconstructFrom(_, _, _)

\* the for loop of reconstructHierarchy from layer number i (1-based) on
ReconstructFrom(transformedLayers, sourcePsd, i) ==
    IF i > Len(transformedLayers) THEN <<>>
    ELSE LET metaLayer == transformedLayers[i]
             originalLayer == findLayerByPath(sourcePsd, metaLayer.id)
             rebuilt == IF metaLayer.type = "group" /\ IsSome(metaLayer.children)
                        THEN Some(reconstructHierarchy(Val(metaLayer.children), sourcePsd))
                        ELSE None
         IN  IF IsSome(originalLayer)
             THEN <<newLayerOf(Val(originalLayer), metaLayer, rebuilt)>>
                  \o ReconstructFrom(transformedLayers, sourcePsd, i + 1)
             ELSE ReconstructFrom(transformedLayers, sourcePsd, i + 1)

\* mutant of reconstructHierarchy: a layer that is not found makes the call
\* give up its whole list
reconstructHierarchyAborting(transformedLayers, sourcePsd) ==
    IF \E i \in 1..Len(transformedLayers) :
           ~IsSome(findLayerByPath(sourcePsd, transformedLayers[i].id))
    THEN <<>>
    ELSE ReconstructFrom(transformedLayers, sourcePsd, 1)

reconstructHierarchy(transformedLayers, sourcePsd) ==
    ReconstructFrom(transformedLayers, sourcePsd, 1)

RECURSIVE finalChildrenFrom(_, _, _)
\* mutant of finalChildrenFrom: a payload without a registered source
\* document ends the loop
finalChildrenFromStopping(payloads, registry, i) ==
    IF i > Len(payloads) THEN <<>>
    ELSE LET sourcePsd == registryGet(registry, payloads[i].sourceNodeId)
         IN  IF ~IsSome(sourcePsd) THEN <<>>
             ELSE reconstructHierarchy(payloads[i].layers, Val(sourcePsd))
                  \o finalChildrenFrom(payloads, registry, i + 1)

\* the loop over activePayloads from payload number i (1-based) on
finalChildrenFrom(payloads, registry, i) ==
    IF i > Len(payloads) THEN <<>>
    ELSE LET sourcePsd == registryGet(registry, payloads[i].sourceNodeId)
         IN  IF ~IsSome(sourcePsd) THEN finalChildrenFrom(payloads, registry, i + 1)
             ELSE reconstructHierarchy(payloads[i].layers, Val(sourcePsd))
                  \o finalChildrenFrom(payloads, registry, i + 1)

(***************************************************************************)
(* Inputs of the remapping runs.                                           *)
(***************************************************************************)
RECURSIVE Pow2(_)
Pow2(k) == IF k = 0 THEN 1 ELSE 2 * Pow2(k - 1)

\* container widths and heights: 0 (a container with missing edges), 50, 100, 200, ..
Dims == {0} \cup {25 * Pow2(k) : k \in 1..MaxDim}
SourceOrigins == {0, 25}
TargetOrigins == {<<0, 0>>, <<25, 50>>}

Rect(x, y, w, h) == [x |-> x, y |-> y, w |-> w, h |-> h]
SourceRects == {Rect(x, y, w, h) : x \in SourceOrigins, y \in SourceOrigins, w \in Dims, h \in Dims}
TargetRects == {Rect(o[1], o[2], w, h) : o \in TargetOrigins, w \in Dims, h \in Dims}

\* layer boxes <<left, top, width, height>>
LayerBoxes == {<<x, y, sz[1], sz[2]>> : x \in {0, 25}, y \in {0, 50}, sz \in {<<10, 10>>, <<50, 20>>}}

\* an ag-psd layer with all four edges present
PsdLayer(name, box, hidden, opacity, children, ref) ==
    [name |-> Some(name),
     top |-> Some(box[2]), left |-> Some(box[1]),
     bottom |-> Some(box[2] + box[4]), right |-> Some(box[1] + box[3]),
     hidden |-> hidden, opacity |-> opacity, children |-> children, ref |-> ref]

Shift(box, dx, dy) == <<box[1] + dx, box[2] + dy, box[3], box[4]>>

\* the children of a design group, as documents hold them
DesignChildren ==
    {<<>>}
    \cup {<<PsdLayer(<<"a">>, b, None, None, None, 1)>> : b \in LayerBoxes}
    \cup {<<PsdLayer(<<"g">>, b, Some(FALSE), Some(255),
                     Some(<<PsdLayer(<<"b">>, Shift(b, 5, 0), Some(TRUE), Some(51), None, 2),
                            PsdLayer(<<"h">>, Shift(b, 0, 5), None, None,
                                     Some(<<PsdLayer(<<"c">>, Shift(b, 5, 5), None, Some(0), None, 4)>>), 3),
                            PsdLayer(<<"e">>, b, None, None, Some(<<>>), 5)>>), 1),
            PsdLayer(<<"d">>, Shift(b, 10, 10), None, Some(128), None, 6)>> : b \in LayerBoxes}

\* MappingContext.layers of a resolved design group: the serialized children
\* of the group, which is the first top-level layer of its document
ResolvedLayers(children) ==
    LET tree == getCleanLayerTree(<<PsdLayer(<<"S">>, <<0, 0, 0, 0>>, None, None, Some(children), 0)>>, <<>>)
    IN  Val(tree[1].children)

SourceDatas ==
    {None} \cup
    {Some([sourceNodeId |-> "psd-1", containerName |-> "S",
           layers |-> ResolvedLayers(c), originalBounds |-> r]) :
        c \in DesignChildren, r \in SourceRects}

TargetDatas ==
    {None} \cup {Some([containerName |-> "T", bounds |-> r]) : r \in TargetRects}

(***************************************************************************)
(* Remapping runs: the inputs are drawn, the payload is computed once.     *)
(***************************************************************************)
TreeIdle ==
    /\ psd = EmptyPsd /\ designLayers = None /\ layerId = None /\ found = None
    /\ template = None /\ validation = None /\ containerContext = None
StoreIdle == templateRegistry = <<>> /\ resolvedRegistry = <<>>
LoaderIdle ==
    /\ fileName = None /\ nodeError = None /\ isLoading = FALSE
    /\ localError = None /\ inFlight = <<>>
GraphIdle == edges = {} /\ connects = 0
SyncIdle == storedPayload = None /\ writes = 0
HostIdle ==
    /\ layoutStrategy = None /\ sourceLayerGroup = None
    /\ StoreIdle /\ LoaderIdle /\ GraphIdle /\ SyncIdle

ExportIdle ==
    /\ activePayloads = <<>> /\ psdRegistry = <<>> /\ newPsd = None /\ exportError = None
ResolverIdle ==
    /\ templateName = <<>> /\ designTree = None /\ matchedGroup = None
    /\ resolution = None /\ channel = None /\ mappingContext = None
RemapIdle == sourceData = None /\ targetData = None /\ payload = None

InitRemap ==
    /\ sourceData \in SourceDatas
    /\ targetData \in TargetDatas
    /\ payload = None
    /\ pc = "idle"
    /\ TreeIdle
    /\ ResolverIdle
    /\ ExportIdle
    /\ HostIdle

ComputePayload ==
    /\ pc = "idle"
    /\ payload' = transformationPayload(sourceData, targetData)
    /\ pc' = "done"
    /\ UNCHANGED <<sourceData, targetData, treeVars, resolverVars, exportVars, hostVars>>

NextRemap == ComputePayload

Spec == InitRemap /\ [][NextRemap]_vars

(***************************************************************************)
(* Remapping runs with a strategy: the analyst has registered a strategy   *)
(* for the remap, or none.                                                 *)
(***************************************************************************)
Override(id, dx, dy, k) ==
    [layerId |-> id, xOffset |-> Num(dx), yOffset |-> Num(dy), individualScale |-> k]

\* override tables: none, one for a top-level layer, one for a nested layer
\* next to one for a layer that does not exist
OverrideTables ==
    {<<>>,
     <<Override(LAYER_PREFIX \o <<"0", ".", "0">>, 3, -4, Num(2))>>,
     <<Override(LAYER_PREFIX \o <<"9">>, 7, 7, Num(3)),
       Override(LAYER_PREFIX \o <<"0", ".", "0", ".", "1">>, -5, 0, Frac(1, 2))>>}

Strategies ==
    {None} \cup
    {Some([suggestedScale |-> k, anchor |-> a, overrides |-> o]) :
        k \in {Frac(1, 2), Num(2)},
        a \in {"TOP", "CENTER", "BOTTOM", "STRETCH"},
        o \in OverrideTables}

InitStrategy ==
    /\ sourceData \in {d \in SourceDatas :
                          /\ IsSome(d)
                          /\ Val(d).originalBounds.x = 25 /\ Val(d).originalBounds.y = 0
                          /\ Val(d).originalBounds.w = Val(d).originalBounds.h}
    /\ targetData \in {t \in TargetDatas : IsSome(t) /\ Val(t).bounds.x = 25}
    /\ layoutStrategy \in Strategies
    /\ payload = None
    /\ sourceLayerGroup = None
    /\ StoreIdle /\ LoaderIdle /\ GraphIdle /\ SyncIdle
    /\ pc = "idle"
    /\ TreeIdle
    /\ ResolverIdle
    /\ ExportIdle

\* the payload of the remapper when the analyst's strategy is at hand
ComputePayloadWithStrategy ==
    /\ pc = "idle"
    /\ payload' = remap(sourceData, targetData, layoutStrategy)
    /\ pc' = "done"
    /\ UNCHANGED <<sourceData, targetData, treeVars, resolverVars, exportVars, hostVars>>

NextStrategy == ComputePayloadWithStrategy

SpecStrategy == InitStrategy /\ [][NextStrategy]_vars

\* every layer of a tree, depth first, parents before children, siblings in order
RECURSIVE Flatten(_)
Flatten(layers) ==
    IF Len(layers) = 0 THEN <<>>
    ELSE LET l == layers[1]
         IN  <<l>> \o (IF IsSome(l.children) THEN Flatten(Val(l.children)) ELSE <<>>)
                   \o Flatten([i \in 1..(Len(layers) - 1) |-> layers[i + 1]])

(***************************************************************************)
(* Documents handed to the tree adapter: every forest of at most MaxNodes  *)
(* layers, each marked as the template group or not; a layer without      *)
(* nested layers has no children array or an empty one.  Label gives every *)
(* layer its identity (ref: the route to it), its name and its edges: a    *)
(* marked layer is named '!!TEMPLATE', an unmarked one has the near miss   *)
(* '!!template' when it is the first of its list and no name otherwise;    *)
(* the first child of every list has no edges at all.                      *)
(***************************************************************************)
LOWER_TEMPLATE == <<"!", "!", "t", "e", "m", "p", "l", "a", "t", "e">>
Shape(marked, children) == [marked |-> marked, children |-> children]

RECURSIVE Forests(_)
RECURSIVE Subtrees(_)
\* the children value of a layer with exactly m layers below it
Subtrees(m) == IF m = 0 THEN {None, Some(<<>>)} ELSE {Some(f) : f \in Forests(m)}
\* the forests of exactly n layers
Forests(n) ==
    IF n = 0 THEN {<<>>}
    ELSE UNION {{<<Shape(nm, c)>> \o rest :
                    nm \in BOOLEAN, c \in Subtrees(k - 1), rest \in Forests(n - k)} :
                k \in 1..n}

RECURSIVE Label(_, _)
Label(forest, route) ==
    [i \in 1..Len(forest) |->
        LET here == route \o <<i - 1>>
            top == 10 * Len(here)
            left == 10 * (i - 1)
        IN  [name |-> IF forest[i].marked THEN Some(TEMPLATE_NAME)
                      ELSE IF i = 1 THEN Some(LOWER_TEMPLATE) ELSE None,
             top |-> IF i = 1 THEN None ELSE Some(top),
             left |-> IF i = 1 THEN None ELSE Some(left),
             bottom |-> IF i = 1 THEN None ELSE Some(top + 20),
             right |-> IF i = 1 THEN None ELSE Some(left + 30),
             hidden |-> IF i = 2 THEN Some(TRUE) ELSE None,
             opacity |-> IF i = 2 THEN Some(51) ELSE None,
             children |-> IF IsSome(forest[i].children)
                          THEN Some(Label(Val(forest[i].children), here)) ELSE None,
             ref |-> here]]

DocumentsUpTo(max) ==
    {EmptyPsd} \cup
    {[width |-> Some(100), height |-> Some(100), children |-> Some(Label(f, <<>>))] : f \in UNION {Forests(n) : n \in 0..max}}

(***************************************************************************)
(* Tree adapter runs: a document is loaded (LoadPSDNode.handleFileChange   *)
(* derives designLayers from it), then layers are looked up by id          *)
(* (ExportPSDNode's reconstructHierarchy calls findLayerByPath with the    *)
(* ids of the serialized layers).                                          *)
(***************************************************************************)
InitTree ==
    /\ psd \in DocumentsUpTo(MaxNodes)
    /\ designLayers = None /\ layerId = None /\ found = None
    /\ template = None /\ validation = None /\ containerContext = None
    /\ pc = "idle"
    /\ RemapIdle
    /\ ResolverIdle
    /\ ExportIdle
    /\ HostIdle

\* handleFileChange: the template, the validation report and the design layers
\* of the parsed document
LoadDocument ==
    /\ pc = "idle"
    /\ LET templateData == extractTemplateMetadata(psd)
       IN  /\ template' = Some(templateData)
           /\ validation' = Some(mapLayersToContainers(psd, templateData))
    /\ designLayers' = Some(IF IsSome(psd.children)
                            THEN getCleanLayerTree(Val(psd.children), <<>>) ELSE <<>>)
    /\ pc' = "loaded"
    /\ UNCHANGED <<psd, layerId, found, containerContext, remapVars, resolverVars, exportVars, hostVars>>

\* findLayerByPath(sourcePsd, metaLayer.id) for a serialized layer of any depth
FindLayer ==
    /\ pc \in {"loaded", "found"}
    /\ \E k \in 1..Len(Flatten(Val(designLayers))) :
          LET id == Flatten(Val(designLayers))[k].id
          IN  /\ layerId' = Some(id)
              /\ found' = findLayerByPath(psd, id)
    /\ pc' = "found"
    /\ UNCHANGED <<psd, designLayers, template, validation, containerContext,
                   remapVars, resolverVars, exportVars, hostVars>>

\* layer ids that no serialized layer of the loaded document need bear:
\* an empty path, a letter, an empty segment, a negative index, indices
\* beyond the siblings, a path deeper than the tree
StaleIds ==
    {LAYER_PREFIX \o path :
        path \in {<<>>, <<"a">>, <<"0", ".", ".", "1">>, <<".", "0">>, <<"0", ".">>,
                  <<"-", "1">>, <<"9">>, <<"0", ".", "9">>, <<"0", ".", "a">>,
                  <<"0", ".", "0", ".", "0", ".", "0", ".", "0">>}}

\* findLayerByPath(sourcePsd, metaLayer.id) for an id that was not derived
\* from the document at hand
FindStaleLayer ==
    /\ pc = "loaded"
    /\ \E id \in StaleIds :
          /\ layerId' = Some(id)
          /\ found' = findLayerByPath(psd, id)
    /\ pc' = "probed"
    /\ UNCHANGED <<psd, designLayers, template, validation, containerContext,
                   remapVars, resolverVars, exportVars, hostVars>>

NextTree == LoadDocument \/ FindLayer \/ FindStaleLayer

SpecTree == InitTree /\ [][NextTree]_vars

(***************************************************************************)
(* Documents with a template group and design groups, as LoadPSDNode       *)
(* receives them.  The first container child covers x 10..50, y 20..50,    *)
(* the second one x 0..20, y 0..20; the layers of a design group lie       *)
(* inside the first container, on its edges, one pixel over one edge, or   *)
(* outside of it, lack an edge, or hold a nested layer that lies outside.  *)
(***************************************************************************)
Leaf(name, left, top, right, bottom, children, ref) ==
    [name |-> name, top |-> top, left |-> left, bottom |-> bottom, right |-> right,
     hidden |-> None, opacity |-> None, children |-> children, ref |-> ref]

ContainerRawNames ==
    {Some(<<"!", "!", "S">>), Some(<<"!", "S">>), Some(<<"!", "!", "!", " ", "S">>),
     Some(<<"!", "!", " ", "S", " ", " ", "x">>), Some(<<"S">>), Some(<<"!", "!">>), None}

ContainerChild(i, raw) ==
    IF i = 1 THEN Leaf(raw, Some(10), Some(20), Some(50), Some(50), None, <<"c", i>>)
    ELSE Leaf(raw, Some(0), Some(0), Some(20), Some(20), None, <<"c", i>>)

ContainerLists ==
    {<<>>}
    \cup {<<ContainerChild(1, r)>> : r \in ContainerRawNames}
    \cup {<<ContainerChild(1, r1), ContainerChild(2, r2)>> :
            r1 \in ContainerRawNames, r2 \in {Some(<<"!", "!", "S">>), Some(<<"S">>)}}

\* the group that holds the container definitions, and look-alikes that do not
TemplateGroups ==
    {Leaf(Some(TEMPLATE_NAME), None, None, None, None, Some(c), <<"t">>) : c \in ContainerLists}
    \cup {Leaf(Some(TEMPLATE_NAME), None, None, None, None, None, <<"t">>),
          Leaf(Some(LOWER_TEMPLATE), None, None, None, None,
               Some(<<ContainerChild(1, Some(<<"!", "!", "S">>))>>), <<"t">>)}

\* <<left, top, right, bottom>> of a design layer; None is a missing edge
DesignEdges ==
    {<<Some(10), Some(20), Some(50), Some(50)>>,    \* exactly on all four edges
     <<Some(10), Some(20), Some(51), Some(50)>>,    \* one pixel over the right edge
     <<Some(9), Some(20), Some(50), Some(50)>>,     \* one pixel over the left edge
     <<Some(10), Some(19), Some(50), Some(50)>>,    \* one pixel over the top edge
     <<Some(10), Some(20), Some(50), Some(51)>>,    \* one pixel over the bottom edge
     <<Some(60), Some(60), Some(70), Some(70)>>,    \* outside
     <<Some(60), Some(60), None, Some(70)>>}        \* outside, without a right edge

DesignLayerAt(name, e, children, ref) ==
    Leaf(Some(name), e[1], e[2], e[3], e[4], children, ref)

\* a layer inside the container that holds a nested layer outside of it
NestingLayer(name, ref) ==
    DesignLayerAt(name, <<Some(10), Some(20), Some(50), Some(50)>>,
                  Some(<<DesignLayerAt(<<"n">>, <<Some(60), Some(60), Some(70), Some(70)>>,
                                       None, ref \o <<0>>)>>), ref)

FirstLayers(ref) ==
    {DesignLayerAt(<<"k">>, e, None, ref) : e \in DesignEdges} \cup {NestingLayer(<<"k">>, ref)}
SecondLayers(ref) ==
    {DesignLayerAt(<<"m">>, e, None, ref) :
        e \in {<<Some(10), Some(20), Some(50), Some(50)>>,
               <<Some(10), Some(20), Some(51), Some(50)>>,
               <<Some(0), Some(0), Some(20), Some(20)>>}}

DesignGroupNames == {Some(<<"S">>), Some(<<"s">>), Some(<<>>), None}

DesignGroups ==
    {Leaf(n, None, None, None, None, c, <<"g">>) :
        n \in DesignGroupNames,
        c \in {None, Some(<<>>)}
              \cup {Some(<<a>>) : a \in FirstLayers(<<"g", 0>>)}
              \cup {Some(<<a, b>>) : a \in FirstLayers(<<"g", 0>>), b \in SecondLayers(<<"g", 1>>)}}

\* a second design group: its only layer has no name and lies outside
OtherGroup ==
    Leaf(Some(<<"S">>), None, None, None, None,
         Some(<<Leaf(None, Some(60), Some(60), Some(70), Some(70), None, <<"o", 0>>)>>), <<"o">>)

\* <<width, height>> as the parser reports them
Canvases == {<<None, Some(0)>>, <<Some(0), None>>, <<Some(100), Some(200)>>}

TemplateDocumentsOver(canvases) ==
    {[width |-> cv[1], height |-> cv[2], children |-> Some(ch)] :
        cv \in canvases,
        ch \in UNION {{<<t, g>>, <<g, t>>, <<g, t, OtherGroup>>, <<g, OtherGroup>>} :
                        t \in TemplateGroups, g \in DesignGroups}}

(***************************************************************************)
(* Load runs: a document with a template is loaded, then a container is    *)
(* looked up by name (a splitter handle handed to createContainerContext). *)
(***************************************************************************)
InitLoad ==
    /\ psd \in TemplateDocumentsOver(Canvases)
    /\ designLayers = None /\ layerId = None /\ found = None
    /\ template = None /\ validation = None /\ containerContext = None
    /\ pc = "idle"
    /\ RemapIdle
    /\ ResolverIdle
    /\ ExportIdle
    /\ HostIdle

\* createContainerContext(template, edge.sourceHandle) for a handle that
\* bears a container name of the template, or a stale one
SelectContainer ==
    /\ pc = "loaded"
    /\ \E name \in {Val(template).containers[i].name : i \in 1..Len(Val(template).containers)}
                   \cup {<<"n", "o">>} :
          containerContext' = createContainerContext(Val(template), name)
    /\ pc' = "selected"
    /\ UNCHANGED <<psd, designLayers, layerId, found, template, validation,
                   remapVars, resolverVars, exportVars, hostVars>>

NextLoad == LoadDocument \/ SelectContainer

SpecLoad == InitLoad /\ [][NextLoad]_vars

(***************************************************************************)
(* Export runs: the payload of a remapper was computed from the layers of  *)
(* a document; by the time of the export the registry holds that document  *)
(* under the payload's sourceNodeId, or an edited one, or none.  A second  *)
(* payload from another document may precede or follow it.                 *)
(***************************************************************************)
EXPORT_SOURCE == Rect(0, 0, 50, 50)
EXPORT_TARGET == Rect(25, 50, 100, 200)

\* the payload a remapper derives from the design layers of a document
PayloadOf(sourceNodeId, doc) ==
    Val(transformationPayload(
            Some([sourceNodeId |-> sourceNodeId, containerName |-> "S",
                  layers |-> IF IsSome(doc.children)
                             THEN getCleanLayerTree(Val(doc.children), <<>>) ELSE <<>>,
                  originalBounds |-> EXPORT_SOURCE]),
            Some([containerName |-> "T", bounds |-> EXPORT_TARGET])))

\* a document after an upstream edit: its first top-level layer deleted
WithoutFirst(doc) ==
    IF IsSome(doc.children) /\ Len(Val(doc.children)) > 0
    THEN [doc EXCEPT !.children = Some(SubSeq(Val(doc.children), 2, Len(Val(doc.children))))]
    ELSE doc

\* a document after an upstream edit: every top-level group flattened
Flattened(doc) ==
    IF IsSome(doc.children)
    THEN [doc EXCEPT !.children =
              Some([i \in 1..Len(Val(doc.children)) |->
                       [Val(doc.children)[i] EXCEPT !.children = None]])]
    ELSE doc

RegisteredFor(doc) == {doc, WithoutFirst(doc), Flattened(doc)}

SecondDocument ==
    [width |-> Some(50), height |-> Some(50),
     children |-> Some(<<PsdLayer(<<"g">>, <<0, 0, 50, 20>>, Some(FALSE), Some(255),
                                  Some(<<PsdLayer(<<"b">>, <<5, 0, 10, 10>>, Some(TRUE), Some(51),
                                                  None, <<9, 0>>)>>),
                                  <<9>>)>>)]

\* the registries: each source node id is bound to a document or absent
Registries(doc) ==
    {[id \in ids |-> IF id = "psd-1" THEN first ELSE SecondDocument] :
        ids \in SUBSET {"psd-1", "psd-2"}, first \in RegisteredFor(doc)}

PayloadLists(doc) ==
    LET p1 == PayloadOf("psd-1", doc)
        p2 == PayloadOf("psd-2", SecondDocument)
    IN  {<<>>, <<p1>>, <<p1, p2>>, <<p2, p1>>}

InitExport ==
    /\ \E doc \in DocumentsUpTo(MaxNodes - 1) :
          /\ template \in {None, Some(extractTemplateMetadata(doc))}
          /\ activePayloads \in PayloadLists(doc)
          /\ psdRegistry \in Registries(doc)
    /\ newPsd = None /\ exportError = None
    /\ psd = EmptyPsd /\ designLayers = None /\ layerId = None /\ found = None
    /\ validation = None /\ containerContext = None
    /\ templateRegistry = [id \in DOMAIN psdRegistry |->
                               extractTemplateMetadata(psdRegistry[id])]
    /\ resolvedRegistry = <<>>
    /\ layoutStrategy = None /\ sourceLayerGroup = None
    /\ LoaderIdle /\ GraphIdle /\ SyncIdle
    /\ pc = "idle"
    /\ RemapIdle
    /\ ResolverIdle

\* a registry without the entry of a node
without(registry, nodeId) == [id \in DOMAIN registry \ {nodeId} |-> registry[id]]

\* unregisterNode(nodeId): the cleanup of a node that is removed; the
\* payloads that remappers hold in their node data are not touched
UnregisterNode ==
    /\ pc = "idle"
    /\ \E nodeId \in {"psd-1", "psd-2", "psd-3"} :
          /\ psdRegistry' = without(psdRegistry, nodeId)
          /\ templateRegistry' = without(templateRegistry, nodeId)
          /\ resolvedRegistry' = without(resolvedRegistry, nodeId)
    /\ UNCHANGED <<activePayloads, newPsd, exportError, treeVars, remapVars, resolverVars,
                   layoutStrategy, sourceLayerGroup, loaderVars, graphVars, syncVars, pc>>

\* handleExport: nothing without template metadata; otherwise the new
\* document is assembled and written, and only the writer can fail
HandleExport ==
    /\ pc = "idle"
    /\ IF ~IsSome(template)
       THEN UNCHANGED <<newPsd, exportError>>
       ELSE /\ newPsd' = Some([width |-> Val(template).canvas.width,
                               height |-> Val(template).canvas.height,
                               children |-> finalChildrenFrom(activePayloads, psdRegistry, 1)])
            /\ \E written \in BOOLEAN :
                  exportError' = IF written THEN None ELSE Some(WRITE_FAILED)
    /\ pc' = "exported"
    /\ UNCHANGED <<activePayloads, psdRegistry, psd, designLayers, layerId, found,
                   template, validation, containerContext, remapVars, resolverVars,
                   hostVars>>

NextExport == HandleExport \/ UnregisterNode

SpecExport == InitExport /\ [][NextExport]_vars

(***************************************************************************)
(* Name Resolver.                                                          *)
(***************************************************************************)
UpperChars == <<"A", "B", "C", "D", "E", "F", "G", "H", "I", "J", "K", "L", "M",
                "N", "O", "P", "Q", "R", "S", "T", "U", "V", "W", "X", "Y", "Z">>
LowerChars == <<"a", "b", "c", "d", "e", "f", "g", "h", "i", "j", "k", "l", "m",
                "n", "o", "p", "q", "r", "s", "t", "u", "v", "w", "x", "y", "z">>

\* String.prototype.toLowerCase
LowerChar(c) ==
    IF \E k \in 1..Len(UpperChars) : UpperChars[k] = c
    THEN LowerChars[CHOOSE k \in 1..Len(UpperChars) : UpperChars[k] = c]
    ELSE c
ToLowerCase(s) == [k \in 1..Len(s) |-> LowerChar(s[k])]

\* String.prototype.trim (the model's only whitespace character is the space)
RECURSIVE TrimStart(_)
TrimStart(s) == IF s # <<>> /\ s[1] = " " THEN TrimStart(Tail(s)) ELSE s
RECURSIVE TrimEnd(_)
TrimEnd(s) == IF s # <<>> /\ s[Len(s)] = " " THEN TrimEnd(SubSeq(s, 1, Len(s) - 1)) ELSE s
Trim(s) == TrimEnd(TrimStart(s))

\* s.replace(/^!+/, '')
RECURSIVE StripMarkers(_)
StripMarkers(s) == IF s # <<>> /\ s[1] = "!" THEN StripMarkers(Tail(s)) ELSE s

\* the resolver's name normalization: templateName.replace(/^!+/, '').trim()
\* followed by toLowerCase()
normalize(x) == ToLowerCase(Trim(StripMarkers(x)))

\* Array.prototype.find with the resolver's predicate: the index of the first
\* entry whose trimmed, lower-cased name is target, 0 when there is none
FindByFoldedName(tree, target) ==
    LET hits == {i \in 1..Len(tree) : ToLowerCase(Trim(tree[i].name)) = target}
    IN  IF hits = {} THEN 0 ELSE CHOOSE i \in hits : \A j \in hits : i <= j

\* mutant of resolveLayer: an entry matching with exact case is preferred to
\* an earlier entry matching after case folding
resolveLayerExactFirst(name, tree) ==
    IF ~IsSome(tree) \/ name = <<>> THEN None
    ELSE LET normalizedTemplateName == Trim(StripMarkers(name))
             exact == {i \in 1..Len(Val(tree)) : Val(tree)[i].name = normalizedTemplateName}
             i == FindByFoldedName(Val(tree), ToLowerCase(normalizedTemplateName))
         IN  IF normalizedTemplateName = <<>> THEN None
             ELSE IF exact # {} THEN Some(Val(tree)[CHOOSE e \in exact : \A j \in exact : e <= j])
             ELSE IF i = 0 THEN None ELSE Some(Val(tree)[i])

\* resolveLayer(templateName, designTree) of usePsdResolver: the matching
\* layer, or None (null)
resolveLayer(name, tree) ==
    IF ~IsSome(tree) \/ name = <<>> THEN None
    ELSE LET normalizedTemplateName == Trim(StripMarkers(name))
             targetNameLower == ToLowerCase(normalizedTemplateName)
             i == FindByFoldedName(Val(tree), targetNameLower)
         IN  IF normalizedTemplateName = <<>> THEN None
             ELSE IF i = 0 THEN None ELSE Some(Val(tree)[i])

\* the channel of the ContainerResolverNode that consumes the plain result
channelOf(containerName, group) ==
    IF IsSome(group)
    THEN LET children == IF IsSome(Val(group).children)
                         THEN Val(Val(group).children) ELSE <<>>
         IN  [status |-> "resolved", containerName |-> containerName,
              layerCount |-> Len(children), debugCode |-> None]
    ELSE [status |-> "warning", containerName |-> containerName,
          layerCount |-> 0, debugCode |-> None]

\* mutant of uiStatusOf: an empty group is shown as a normal resolution
uiStatusOfLenient(status) ==
    CASE status = "RESOLVED" -> "resolved"
      [] status = "EMPTY_GROUP" -> "resolved"
      [] status = "CASE_MISMATCH" -> "warning"
      [] OTHER -> "error"

\* switch (result.status) of the diagnostic ContainerResolverNode
uiStatusOf(status) ==
    CASE status = "RESOLVED" -> "resolved"
      [] status \in {"CASE_MISMATCH", "EMPTY_GROUP"} -> "warning"
      [] OTHER -> "error"

\* the channel of the ContainerResolverNode that consumes {layer, status}
diagnosticChannelOf(containerName, result) ==
    LET childCount == IF IsSome(result.layer) /\ IsSome(Val(result.layer).children)
                      THEN Len(Val(Val(result.layer).children)) ELSE 0
    IN  [status |-> uiStatusOf(result.status), containerName |-> containerName,
         layerCount |-> childCount, debugCode |-> Some(result.status)]

(***************************************************************************)
(* The diagnostic resolveLayer, which returns {layer, status, message}, is *)
(* used by the ContainerResolverNode above but its body is not part of the *)
(* sources; it is modelled from the resolver steps of the specification,   *)
(* taken in the order in which they are listed.  The message is omitted.   *)
(***************************************************************************)
ResolutionResult(layer, status) == [layer |-> layer, status |-> status]
IsEmptyGroup(layer) == ~IsSome(layer.children) \/ Val(layer.children) = <<>>

\* mutant of resolveLayerDiagnostic: the exact-case test folds the case away
resolveLayerDiagnosticFolded(name, tree) ==
    IF Trim(name) = <<>> THEN ResolutionResult(None, "NO_NAME")
    ELSE IF ~IsSome(tree) \/ Val(tree) = <<>>
    THEN ResolutionResult(None, "MISSING_DESIGN_GROUP")
    ELSE LET normalized == Trim(StripMarkers(name))
             i == FindByFoldedName(Val(tree), ToLowerCase(normalized))
         IN  IF normalized = <<>> THEN ResolutionResult(None, "NO_NAME")
             ELSE IF i = 0 THEN ResolutionResult(None, "MISSING_DESIGN_GROUP")
             ELSE IF IsEmptyGroup(Val(tree)[i])
             THEN ResolutionResult(Some(Val(tree)[i]), "EMPTY_GROUP")
             ELSE IF ToLowerCase(Val(tree)[i].name) = ToLowerCase(normalized)
             THEN ResolutionResult(Some(Val(tree)[i]), "RESOLVED")
             ELSE ResolutionResult(Some(Val(tree)[i]), "CASE_MISMATCH")

\* mutant of resolveLayerDiagnostic: the name is normalized before the tree
\* is looked at
resolveLayerDiagnosticNameFirst(name, tree) ==
    LET normalized == Trim(StripMarkers(name))
    IN  IF normalized = <<>> THEN ResolutionResult(None, "NO_NAME")
        ELSE IF ~IsSome(tree) \/ Val(tree) = <<>>
        THEN ResolutionResult(None, "MISSING_DESIGN_GROUP")
        ELSE LET i == FindByFoldedName(Val(tree), ToLowerCase(normalized))
             IN  IF i = 0 THEN ResolutionResult(None, "MISSING_DESIGN_GROUP")
                 ELSE IF IsEmptyGroup(Val(tree)[i])
                 THEN ResolutionResult(Some(Val(tree)[i]), "EMPTY_GROUP")
                 ELSE IF Val(tree)[i].name = normalized
                 THEN ResolutionResult(Some(Val(tree)[i]), "RESOLVED")
                 ELSE ResolutionResult(Some(Val(tree)[i]), "CASE_MISMATCH")

resolveLayerDiagnostic(name, tree) ==
    \* step 1: empty input
    IF Trim(name) = <<>> THEN ResolutionResult(None, "NO_NAME")
    ELSE IF ~IsSome(tree) \/ Val(tree) = <<>>
    THEN ResolutionResult(None, "MISSING_DESIGN_GROUP")
    ELSE \* steps 2 and 3: strip the markers, trim, fold the case
         LET normalized == Trim(StripMarkers(name))
             i == FindByFoldedName(Val(tree), ToLowerCase(normalized))
         IN  IF normalized = <<>> THEN ResolutionResult(None, "NO_NAME")
             \* step 6: no match
             ELSE IF i = 0 THEN ResolutionResult(None, "MISSING_DESIGN_GROUP")
             \* step 5: a match without children
             ELSE IF IsEmptyGroup(Val(tree)[i])
             THEN ResolutionResult(Some(Val(tree)[i]), "EMPTY_GROUP")
             \* step 4: exact case or folded case
             ELSE IF Val(tree)[i].name = normalized
             THEN ResolutionResult(Some(Val(tree)[i]), "RESOLVED")
             ELSE ResolutionResult(Some(Val(tree)[i]), "CASE_MISMATCH")

\* the MappingContext of a matched container: 'empty' for a group without
\* children, the container information always present
mappingContextOf(container, result) ==
    IF ~IsSome(result.layer) THEN None
    ELSE Some([container |-> container,
               layers |-> IF IsSome(Val(result.layer).children)
                          THEN Val(Val(result.layer).children) ELSE <<>>,
               status |-> IF result.status = "EMPTY_GROUP" THEN "empty" ELSE "resolved"])

(***************************************************************************)
(* Inputs of the resolver runs: container names of up to MaxNameLen        *)
(* characters over marker, space, and a letter in both cases; design trees *)
(* of up to two top-level layers, each without children, with an empty     *)
(* children array, or with one nested layer that bears the letter as name. *)
(***************************************************************************)
NameChars == {"!", " ", "s", "S"}
RECURSIVE StringsOfLen(_, _)
StringsOfLen(chars, n) ==
    IF n = 0 THEN {<<>>}
    ELSE {<<c>> \o t : c \in chars, t \in StringsOfLen(chars, n - 1)}
StringsUpTo(chars, n) == UNION {StringsOfLen(chars, k) : k \in 0..n}

RequestedNames == StringsUpTo(NameChars, MaxNameLen)
\* layer names: blank, in either case, padded, longer, and with a marker;
\* getCleanLayerTree never yields an empty name (it becomes 'Untitled')
LayerNames ==
    {<<" ">>, <<"s">>, <<"S">>, <<" ", "s">>, <<"S", " ">>, <<"s", "s">>, <<"!", "s">>}

DesignLayer(id, name, children) ==
    [id |-> id, name |-> name,
     type |-> IF IsSome(children) THEN "group" ELSE "layer",
     isVisible |-> TRUE, opacity |-> Num(1),
     coords |-> [x |-> Num(0), y |-> Num(0), w |-> Num(10), h |-> Num(10)],
     children |-> children]

NestedOptions(id) ==
    {None, Some(<<>>),
     Some(<<DesignLayer(id \o <<".", "0">>, <<"S">>, None)>>)}

DesignTreesOver(names) ==
    {None, Some(<<>>)}
    \cup {Some(<<DesignLayer(<<"layer-0">>, n, c)>>) :
            n \in names, c \in NestedOptions(<<"layer-0">>)}
    \cup {Some(<<DesignLayer(<<"layer-0">>, n1, c1), DesignLayer(<<"layer-1">>, n2, c2)>>) :
            n1 \in names, c1 \in NestedOptions(<<"layer-0">>),
            n2 \in names, c2 \in NestedOptions(<<"layer-1">>)}

\* the template of the connected splitter: one container that bears the
\* requested name
TemplateOf(name) ==
    [canvas |-> [width |-> 100, height |-> 100],
     containers |-> <<[id |-> <<"container-0">>, name |-> name, originalName |-> name,
                       bounds |-> [x |-> 0, y |-> 0, w |-> 50, h |-> 50]]>>]

InitResolve ==
    /\ templateName \in RequestedNames
    /\ designTree \in DesignTreesOver(LayerNames)
    /\ matchedGroup = None /\ resolution = None
    /\ channel = None /\ mappingContext = None
    /\ pc = "idle"
    /\ RemapIdle
    /\ TreeIdle
    /\ ExportIdle
    /\ HostIdle

\* one channel of the ContainerResolverNode that uses the plain resolveLayer
ResolveChannel ==
    /\ pc = "idle"
    /\ LET ctx == createContainerContext(TemplateOf(templateName), templateName)
           containerName == Val(ctx).containerName
           group == resolveLayer(containerName, designTree)
       IN  /\ matchedGroup' = group
           /\ channel' = Some(channelOf(containerName, group))
    /\ pc' = "resolved"
    /\ UNCHANGED <<templateName, designTree, resolution, mappingContext, remapVars, treeVars, exportVars, hostVars>>

\* one channel of the ContainerResolverNode that uses the diagnostic resolveLayer
ResolveChannelDiagnostic ==
    /\ pc = "idle"
    /\ LET ctx == createContainerContext(TemplateOf(templateName), templateName)
           result == resolveLayerDiagnostic(Val(ctx).containerName, designTree)
       IN  /\ resolution' = Some(result)
           /\ channel' = Some(diagnosticChannelOf(Val(ctx).containerName, result))
           /\ mappingContext' = mappingContextOf(Val(ctx), result)
    /\ pc' = "diagnosed"
    /\ UNCHANGED <<templateName, designTree, matchedGroup, remapVars, treeVars, exportVars, hostVars>>

\* the index of the first member of a set of indices, 0 for the empty set
FirstIndex(hits) == IF hits = {} THEN 0 ELSE CHOOSE i \in hits : \A j \in hits : i <= j

\* RemapperNode.sourceContext: the design group found for the container name
\* of the connected channel, None when sourceContext is null
sourceLayerGroupOf(containerName, layers) ==
    IF ~IsSome(layers) THEN None
    ELSE LET cleanName == Trim(StripMarkers(containerName))
             exact == FirstIndex({i \in 1..Len(Val(layers)) :
                                     Val(layers)[i].name = cleanName})
             folded == FirstIndex({i \in 1..Len(Val(layers)) :
                                      ToLowerCase(Val(layers)[i].name) = ToLowerCase(cleanName)})
         IN  IF exact # 0 THEN Some(Val(layers)[exact])
             ELSE IF folded # 0 THEN Some(Val(layers)[folded])
             ELSE None

\* the remapper behind the resolved channel looks the design group up itself
ResolveLocally ==
    /\ pc = "resolved"
    /\ LET ctx == createContainerContext(TemplateOf(templateName), templateName)
       IN  sourceLayerGroup' = sourceLayerGroupOf(Val(ctx).containerName, designTree)
    /\ pc' = "traced"
    /\ UNCHANGED <<resolverVars, remapVars, treeVars, exportVars, layoutStrategy,
                   storeVars, loaderVars, graphVars, syncVars>>

NextResolve == ResolveChannel \/ ResolveChannelDiagnostic \/ ResolveLocally

SpecResolve == InitResolve /\ [][NextResolve]_vars

(***************************************************************************)
(* Re-derivation runs: a host that recomputes on every change calls the    *)
(* same function again with the inputs it had.  One of three pipelines is  *)
(* fed (the remap, the document load, the resolver) and run twice.         *)
(***************************************************************************)
RerunNames == {<<"s">>, <<"S">>, <<" ", "s">>}

InitRerun ==
    /\ \/ /\ sourceData \in SourceDatas
          /\ targetData \in {t \in TargetDatas : IsSome(t) /\ Val(t).bounds.x = 25}
          /\ psd = EmptyPsd /\ templateName = <<>> /\ designTree = None
       \/ /\ psd \in DocumentsUpTo(MaxNodes - 1)
          /\ sourceData = None /\ targetData = None
          /\ templateName = <<>> /\ designTree = None
       \/ /\ templateName \in RequestedNames
          /\ designTree \in DesignTreesOver(RerunNames)
          /\ sourceData = None /\ targetData = None /\ psd = EmptyPsd
    /\ payload = None
    /\ designLayers = None /\ layerId = None /\ found = None
    /\ template = None /\ validation = None /\ containerContext = None
    /\ matchedGroup = None /\ resolution = None
    /\ channel = None /\ mappingContext = None
    /\ pc = "idle"
    /\ ExportIdle
    /\ HostIdle

\* the memo of transformationPayload evaluated again
RecomputePayload ==
    /\ pc = "done"
    /\ payload' = transformationPayload(sourceData, targetData)
    /\ pc' = "redone"
    /\ UNCHANGED <<sourceData, targetData, treeVars, resolverVars, exportVars, hostVars>>

\* handleFileChange called again with the same file
ReloadDocument ==
    /\ pc = "loaded"
    /\ LET templateData == extractTemplateMetadata(psd)
       IN  /\ template' = Some(templateData)
           /\ validation' = Some(mapLayersToContainers(psd, templateData))
    /\ designLayers' = Some(IF IsSome(psd.children)
                            THEN getCleanLayerTree(Val(psd.children), <<>>) ELSE <<>>)
    /\ pc' = "reloaded"
    /\ UNCHANGED <<psd, layerId, found, containerContext, remapVars, resolverVars,
                   exportVars, hostVars>>

\* the channel of the ContainerResolverNode resolved again
ResolveChannelAgain ==
    /\ pc = "resolved"
    /\ LET ctx == createContainerContext(TemplateOf(templateName), templateName)
           containerName == Val(ctx).containerName
           group == resolveLayer(containerName, designTree)
       IN  /\ matchedGroup' = group
           /\ channel' = Some(channelOf(containerName, group))
    /\ pc' = "reresolved"
    /\ UNCHANGED <<templateName, designTree, resolution, mappingContext, remapVars,
                   treeVars, exportVars, hostVars>>

NextRerun ==
    \/ ComputePayload \/ RecomputePayload
    \/ LoadDocument \/ ReloadDocument
    \/ ResolveChannel \/ ResolveChannelAgain

SpecRerun == InitRerun /\ [][NextRerun]_vars

(***************************************************************************)
(* Properties of the remapping engine.                                     *)
(***************************************************************************)
\* a tree reduced to its shape and its non-geometric fields
RECURSIVE NonGeometric(_)
NonGeometric(layers) ==
    [i \in 1..Len(layers) |->
        [id |-> layers[i].id, name |-> layers[i].name, type |-> layers[i].type,
         isVisible |-> layers[i].isVisible, opacity |-> layers[i].opacity,
         children |-> IF IsSome(layers[i].children)
                      THEN Some(NonGeometric(Val(layers[i].children))) ELSE None]]

Remapped == pc = "done" /\ IsSome(sourceData) /\ IsSome(targetData)
SrcRect == Val(sourceData).originalBounds
TgtRect == Val(targetData).bounds
InLayers == Flatten(Val(sourceData).layers)
OutLayers == Flatten(Val(payload).layers)
PositiveSource == SrcRect.w > 0 /\ SrcRect.h > 0

\* a = n/d, decided by cross-multiplication
EqRat(a, n, d) == a.k = "fin" /\ a.n * d = n * a.d

\* min(target.w/source.w, target.h/source.h) as numerator and denominator
FitOnX == TgtRect.w * SrcRect.h <= TgtRect.h * SrcRect.w
FitNum == IF FitOnX THEN TgtRect.w ELSE TgtRect.h
FitDen == IF FitOnX THEN SrcRect.w ELSE SrcRect.h

\* C1: for a source rectangle of positive width and height the payload's
\* scaleFactor is min(target.w/source.w, target.h/source.h), and every
\* transformed layer at every depth has scaleX = scaleY = scaleFactor and
\* the size (layer.w * scale, layer.h * scale).
C1_UniformFitScale ==
    (Remapped /\ PositiveSource) =>
        /\ IsSome(payload)
        /\ EqRat(Val(payload).scaleFactor, FitNum, FitDen)
        /\ Len(OutLayers) = Len(InLayers)
        /\ \A k \in 1..Len(OutLayers) :
            /\ OutLayers[k].transform.scaleX = Val(payload).scaleFactor
            /\ OutLayers[k].transform.scaleY = Val(payload).scaleFactor
            /\ EqRat(OutLayers[k].coords.w,
                     InLayers[k].coords.w.n * FitNum, InLayers[k].coords.w.d * FitDen)
            /\ EqRat(OutLayers[k].coords.h,
                     InLayers[k].coords.h.n * FitNum, InLayers[k].coords.h.d * FitDen)

\* source 100x200 into target 50x50 gives 0.25, on a tree three levels deep
C1_Witness ==
    /\ Remapped
    /\ SrcRect = Rect(0, 0, 100, 200) /\ TgtRect = Rect(0, 0, 50, 50)
    /\ Val(payload).scaleFactor = Frac(1, 4)
    /\ Len(OutLayers) = 6
    /\ OutLayers[4].coords.w = Frac(5, 2)

\* the placement the claim C2 states: anchored, centred in the target
ClaimScale == Frac(FitNum, FitDen)
AnchorX == Add(Num(TgtRect.x),
               Div(Sub(Num(TgtRect.w), Mul(Num(SrcRect.w), ClaimScale)), Num(2)))
AnchorY == Add(Num(TgtRect.y),
               Div(Sub(Num(TgtRect.h), Mul(Num(SrcRect.h), ClaimScale)), Num(2)))
RelX(l) == Div(Sub(l.coords.x, Num(SrcRect.x)), Num(SrcRect.w))
RelY(l) == Div(Sub(l.coords.y, Num(SrcRect.y)), Num(SrcRect.h))
AnchoredX(l) == Add(AnchorX, Mul(Mul(RelX(l), Num(SrcRect.w)), ClaimScale))
AnchoredY(l) == Add(AnchorY, Mul(Mul(RelY(l), Num(SrcRect.h)), ClaimScale))

\* C2 as stated: every layer lands at anchorX + relX * source.w * scale and
\* anchorY + relY * source.h * scale.
C2_AnchoredPlacement ==
    (Remapped /\ PositiveSource) =>
        \A k \in 1..Len(OutLayers) :
            /\ OutLayers[k].coords.x = AnchoredX(InLayers[k])
            /\ OutLayers[k].coords.y = AnchoredY(InLayers[k])

\* C2 amended: every layer (at every depth) lands at
\* newX = target.x + relX * target.w and newY = target.y + relY * target.h,
\* each axis projected onto the target's own dimension; this is the anchored
\* position of the claim on the axis whose ratio is the smaller one.
C2_TargetRelativePlacement ==
    (Remapped /\ PositiveSource) =>
        /\ Len(OutLayers) = Len(InLayers)
        /\ \A k \in 1..Len(OutLayers) :
            LET l == InLayers[k]
                o == OutLayers[k]
            IN  /\ EqRat(o.coords.x,
                         TgtRect.x * SrcRect.w * l.coords.x.d
                            + (l.coords.x.n - SrcRect.x * l.coords.x.d) * TgtRect.w,
                         SrcRect.w * l.coords.x.d)
                /\ EqRat(o.coords.y,
                         TgtRect.y * SrcRect.h * l.coords.y.d
                            + (l.coords.y.n - SrcRect.y * l.coords.y.d) * TgtRect.h,
                         SrcRect.h * l.coords.y.d)
                /\ o.transform.offsetX = o.coords.x
                /\ o.transform.offsetY = o.coords.y
                /\ (FitOnX => o.coords.x = AnchoredX(l))
                /\ (TgtRect.h * SrcRect.w <= TgtRect.w * SrcRect.h => o.coords.y = AnchoredY(l))

\* source {0,0,100,200}, target {0,0,50,50}: the layer at x = 25 lands at
\* 12.5 (the anchored position would be 12.5 + 6.25)
C2_Witness ==
    /\ Remapped
    /\ SrcRect = Rect(0, 0, 100, 200) /\ TgtRect = Rect(0, 0, 50, 50)
    /\ Len(InLayers) = 1
    /\ InLayers[1].coords.x = Num(25) /\ InLayers[1].coords.y = Num(50)
    /\ OutLayers[1].coords.x = Frac(25, 2)
    /\ AnchoredX(InLayers[1]) = Frac(75, 4)

AllFinite(l) ==
    /\ IsFinite(l.coords.x) /\ IsFinite(l.coords.y)
    /\ IsFinite(l.coords.w) /\ IsFinite(l.coords.h)
    /\ IsFinite(l.transform.scaleX) /\ IsFinite(l.transform.scaleY)
    /\ IsFinite(l.transform.offsetX) /\ IsFinite(l.transform.offsetY)

\* C3: a source rectangle of width 0 or height 0 never gives a 'success'
\* payload, and no transformed layer with a non-finite coordinate or scale
\* is emitted.
C3_DegenerateSourceRejected ==
    (Remapped /\ (SrcRect.w = 0 \/ SrcRect.h = 0)) =>
        \/ ~IsSome(payload)
        \/ /\ Val(payload).status # "success"
           /\ IsFinite(Val(payload).scaleFactor)
           /\ \A k \in 1..Len(OutLayers) : AllFinite(OutLayers[k])

\* C4: the output tree has the shape and sibling order of the input tree,
\* every output layer keeps the id, name, type, isVisible and opacity of the
\* input layer at its position, and computing the payload leaves the inputs
\* as they were.
C4_StructurePreserved ==
    /\ [](Remapped => NonGeometric(Val(payload).layers) = NonGeometric(Val(sourceData).layers))
    /\ [][sourceData' = sourceData /\ targetData' = targetData]_vars

\* a tree three levels deep with hidden and translucent layers went through
C4_Witness ==
    /\ Remapped
    /\ Len(OutLayers) = 6
    /\ OutLayers[2].isVisible = FALSE /\ OutLayers[2].opacity = Frac(1, 5)
    /\ OutLayers[4].name = <<"c">>
    /\ OutLayers[1].coords # InLayers[1].coords

(***************************************************************************)
(* Properties of the document tree adapter.                                *)
(***************************************************************************)
\* the layers of a document that are neither named '!!TEMPLATE' nor below a
\* layer of that name, depth first, in document order
RECURSIVE Origins(_)
Origins(layers) ==
    IF Len(layers) = 0 THEN <<>>
    ELSE LET l == layers[1]
             below == IF IsSome(l.children) THEN Origins(Val(l.children)) ELSE <<>>
         IN  (IF IsTemplate(l) THEN <<>> ELSE <<l>> \o below)
                \o Origins([i \in 1..(Len(layers) - 1) |-> layers[i + 1]])

DocLayers == IF IsSome(psd.children) THEN Val(psd.children) ELSE <<>>
Emitted == Flatten(Val(designLayers))
\* the number of children of a layer that are not the template group
PlainChildren(l) ==
    IF IsSome(l.children)
    THEN Cardinality({i \in 1..Len(Val(l.children)) : ~IsTemplate(Val(l.children)[i])})
    ELSE 0

\* C5: for every serialized layer, at any depth, findLayerByPath with its id
\* returns exactly the layer of the (unchanged) document it was derived
\* from, also for layers that come after a skipped '!!TEMPLATE' sibling.
C5_RoundTripIdentity ==
    (pc = "found") =>
        /\ Len(Emitted) = Len(Origins(DocLayers))
        /\ \A k \in 1..Len(Emitted) :
              (Val(layerId) = Emitted[k].id) => (found = Some(Origins(DocLayers)[k]))
        /\ \E k \in 1..Len(Emitted) : Val(layerId) = Emitted[k].id

\* a layer found two levels down, after a skipped template sibling on each level
C5_Witness ==
    /\ pc = "found"
    /\ IsSome(found) /\ Val(found).ref = <<1, 1>>
    /\ IsTemplate(DocLayers[1])
    /\ IsTemplate(Val(DocLayers[2].children)[1])

\* C6: no serialized layer exists for a layer named exactly '!!TEMPLATE' nor
\* for a layer below one, wherever it stands among its siblings; all other
\* layers are serialized, in their original order.
C6_TemplateExcluded ==
    (pc # "idle") =>
        /\ \A k \in 1..Len(Emitted) : Emitted[k].name # TEMPLATE_NAME
        /\ Len(Emitted) = Len(Origins(DocLayers))
        /\ \A k \in 1..Len(Emitted) :
              LET e == Emitted[k]
                  o == Origins(DocLayers)[k]
              IN  /\ e.name = NameOr(o.name, UNTITLED)
                  /\ e.coords.x = Num(OrZero(o.left)) /\ e.coords.y = Num(OrZero(o.top))
                  /\ IsSome(e.children) = IsSome(o.children)
                  /\ (e.type = "group") = IsSome(o.children)
                  /\ (IsSome(e.children) => Len(Val(e.children)) = PlainChildren(o))

\* a template group that is not the first child and has layers below it, a
\* nested template group, and layers serialized around them
C6_Witness ==
    /\ pc = "loaded"
    /\ Len(DocLayers) = 2
    /\ IsTemplate(DocLayers[2]) /\ PlainChildren(DocLayers[2]) = 1
    /\ IsSome(DocLayers[1].children) /\ Len(Val(DocLayers[1].children)) = 1
    /\ IsTemplate(Val(DocLayers[1].children)[1])
    /\ Len(Emitted) = 1 /\ Emitted[1].children = Some(<<>>)

(***************************************************************************)
(* Properties of the name resolver.                                        *)
(***************************************************************************)
Resolved == pc = "resolved"
Diagnosed == pc = "diagnosed"
Normalized == Trim(StripMarkers(templateName))
TopLevel == IF IsSome(designTree) THEN Val(designTree) ELSE <<>>
\* the top-level entries whose trimmed, case-folded name is the normalized,
\* case-folded requested name
Matching ==
    {i \in 1..Len(TopLevel) :
        ToLowerCase(Trim(TopLevel[i].name)) = ToLowerCase(Normalized)}
FirstMatch == TopLevel[CHOOSE i \in Matching : \A j \in Matching : i <= j]
Result == Val(resolution)
Blank(name) == \A k \in 1..Len(name) : name[k] = " "
MarkerOnly(name) == name # <<>> /\ \A k \in 1..Len(name) : name[k] = "!"

\* C7 as stated: resolveLayer returns the first top-level entry, in array
\* order, whose trimmed case-folded name equals the marker-stripped, trimmed,
\* case-folded requested name, never a nested layer, and null when no
\* top-level entry matches.
C7_FirstFoldedMatch ==
    Resolved =>
        IF Matching # {} THEN matchedGroup = Some(FirstMatch) ELSE matchedGroup = None

\* C7, amended: for a requested name that is not empty after stripping the
\* markers and trimming, resolveLayer returns the first top-level entry whose
\* trimmed case-folded name equals the normalized case-folded requested name,
\* even when a later entry matches with exact case; it returns null when no
\* top-level entry matches or when the normalized name is empty, and never a
\* nested layer.
C7_FirstFoldedMatchOfName ==
    Resolved =>
        /\ IF Normalized # <<>> /\ Matching # {}
           THEN matchedGroup = Some(FirstMatch) ELSE matchedGroup = None
        /\ IsSome(matchedGroup) =>
              \E i \in 1..Len(TopLevel) : TopLevel[i] = Val(matchedGroup)

\* the first entry matches after folding, the second with exact case and a
\* nested layer of the requested name below the first
C7_Witness ==
    /\ Resolved
    /\ templateName = <<"!", "!", "S">>
    /\ Len(TopLevel) = 2
    /\ TopLevel[1].name = <<"s">> /\ TopLevel[2].name = <<"S">>
    /\ IsSome(TopLevel[1].children) /\ Len(Val(TopLevel[1].children)) = 1
    /\ matchedGroup = Some(TopLevel[1])

C11_NormalizeIdempotent ==
    Resolved => normalize(normalize(templateName)) = normalize(templateName)

(***************************************************************************)
(* Properties of template extraction and design validation.                *)
(***************************************************************************)
Loaded == pc \in {"loaded", "selected"}
TopGroups == IF IsSome(psd.children) THEN Val(psd.children) ELSE <<>>
Containers == Val(template).containers
Issues == Val(validation).issues
DirectChildren(g) == IF IsSome(g.children) THEN Val(g.children) ELSE <<>>
\* the container a name is validated against: the last one of that name
LaterContainer(name) ==
    Containers[CHOOSE i \in 1..Len(Containers) :
                  /\ Containers[i].name = name
                  /\ \A j \in (i + 1)..Len(Containers) : Containers[j].name # name]
NamesContainer(g) ==
    /\ ~IsTemplate(g) /\ IsSome(g.name)
    /\ \E i \in 1..Len(Containers) : Containers[i].name = Val(g.name)
Overflows(l, c) ==
    \/ Val(l.left) < c.bounds.x
    \/ Val(l.top) < c.bounds.y
    \/ Val(l.right) > c.bounds.x + c.bounds.w
    \/ Val(l.bottom) > c.bounds.y + c.bounds.h
Flagged(l, c) ==
    \E i \in 1..Len(Issues) :
        /\ Issues[i].layerName = NameOr(l.name, UNTITLED_LAYER)
        /\ Issues[i].containerName = c.name

\* C12: a direct child, with four numeric edges, of a design group that is
\* validated against a container is flagged iff left < x or top < y or
\* right > x + w or bottom > y + h of that container: one side suffices, a
\* layer exactly on the edges is not flagged, one pixel over is.
C12_OverflowOnAnySide ==
    Loaded =>
        \A gi \in 1..Len(TopGroups) :
            LET g == TopGroups[gi]
            IN  (NamesContainer(g) /\ Val(g.name) # <<>>) =>
                    \A li \in 1..Len(DirectChildren(g)) :
                        LET l == DirectChildren(g)[li]
                        IN  HasEdges(l) =>
                                (Flagged(l, LaterContainer(Val(g.name)))
                                    <=> Overflows(l, LaterContainer(Val(g.name))))

\* the first layer lies exactly on the four edges and is not flagged, the
\* second one is one pixel over the right edge only and is flagged
C12_Witness ==
    /\ pc = "loaded"
    /\ Len(Containers) = 1 /\ Containers[1].name = <<"S">>
    /\ TopGroups[1].name = Some(<<"S">>)
    /\ Len(DirectChildren(TopGroups[1])) = 2
    /\ LET k == DirectChildren(TopGroups[1])[1]
           m == DirectChildren(TopGroups[1])[2]
       IN  /\ k.right = Some(50) /\ k.left = Some(10) /\ k.top = Some(20) /\ k.bottom = Some(50)
           /\ m.right = Some(51) /\ m.left = Some(10) /\ m.top = Some(20) /\ m.bottom = Some(50)
    /\ Len(Issues) = 1 /\ Issues[1].layerName = <<"m">>

\* the issues a group contributes when matched groups are those whose name
\* equals a container name (emptyToo: an empty name counts as a name)
ExpectedOfGroup(g, emptyToo) ==
    IF NamesContainer(g) /\ (emptyToo \/ Val(g.name) # <<>>)
    THEN LET c == LaterContainer(Val(g.name))
             bad == SelectSeq(DirectChildren(g), LAMBDA l : HasEdges(l) /\ Overflows(l, c))
         IN  [k \in 1..Len(bad) |->
                 [layerName |-> NameOr(bad[k].name, UNTITLED_LAYER),
                  containerName |-> c.name, type |-> "PROCEDURAL_VIOLATION"]]
    ELSE <<>>
RECURSIVE ExpectedFrom(_, _)
ExpectedFrom(gi, emptyToo) ==
    IF gi > Len(TopGroups) THEN <<>>
    ELSE ExpectedOfGroup(TopGroups[gi], emptyToo) \o ExpectedFrom(gi + 1, emptyToo)

\* C13 as stated: isValid iff issues is empty, and issues holds exactly one
\* entry, in document order, per violating direct child of a top-level group
\* other than '!!TEMPLATE' whose name exactly equals a container name.
C13_ReportExact ==
    Loaded =>
        /\ Val(validation).isValid <=> (Issues = <<>>)
        /\ Issues = ExpectedFrom(1, TRUE)

\* C13, amended: as stated, for groups with a non-empty name; a group with an
\* empty name is never validated, also when a container has the empty name.
C13_ReportExactForNamedGroups ==
    Loaded =>
        /\ Val(validation).isValid <=> (Issues = <<>>)
        /\ Issues = ExpectedFrom(1, FALSE)

\* two groups contribute, in document order; the first holds a violating
\* layer, a layer without a right edge is absent from the report
C13_Witness ==
    /\ pc = "loaded"
    /\ Len(TopGroups) = 3
    /\ Len(Issues) = 2
    /\ Issues[1].layerName = <<"m">> /\ Issues[2].layerName = UNTITLED_LAYER
    /\ ~HasEdges(DirectChildren(TopGroups[1])[1])
    /\ ~Val(validation).isValid

(***************************************************************************)
(* Properties of the lookup by path.                                       *)
(***************************************************************************)
PathPart == SubSeq(Val(layerId), Len(LAYER_PREFIX) + 1, Len(Val(layerId)))
PathSegments == SplitDots(PathPart)
\* every segment is a non-negative decimal integer
WellFormedPath == PathPart # <<>> /\ \A k \in 1..Len(PathSegments) : AllDigits(PathSegments[k])
\* the indices lead to a layer of the document, step by step
RECURSIVE Leads(_, _)
Leads(children, k) ==
    \/ k > Len(PathSegments)
    \/ /\ IsSome(children)
       /\ DigitsVal(PathSegments[k]) < Len(Val(children))
       /\ Leads(Val(children)[DigitsVal(PathSegments[k]) + 1].children, k + 1)

\* C14: findLayerByPath returns null for every layer id whose path part is
\* empty or malformed (a non-numeric, empty or negative segment), has an
\* index out of range at some step, or descends below a layer without
\* children.
C14_BadPathIsNull ==
    (pc = "probed" /\ (~WellFormedPath \/ ~Leads(psd.children, 1))) => found = None

(***************************************************************************)
(* Properties of the export reconstruction.                                *)
(***************************************************************************)
Exported == pc = "exported" /\ IsSome(template)
SourceOf(i) == registryGet(psdRegistry, activePayloads[i].sourceNodeId)
\* the transformed layers of a list that the document still holds
Kept(layers, doc) == SelectSeq(layers, LAMBDA l : IsSome(findLayerByPath(doc, l.id)))
\* the number of top-level layers payload i contributes, and where they start
Count(i) == IF IsSome(SourceOf(i)) THEN Len(Kept(activePayloads[i].layers, Val(SourceOf(i)))) ELSE 0
RECURSIVE Offset(_)
Offset(i) == IF i = 1 THEN 0 ELSE Offset(i - 1) + Count(i - 1)
Segment(i) == SubSeq(Val(newPsd).children, Offset(i) + 1, Offset(i) + Count(i))

\* the identities of the layers of an exported tree
RECURSIVE OutRefs(_)
OutRefs(out) ==
    [k \in 1..Len(out) |->
        [ref |-> out[k].ref,
         below |-> IF IsSome(out[k].children) THEN OutRefs(Val(out[k].children)) ELSE <<>>]]

\* the identities of the layers a list of transformed layers still names
RECURSIVE Survivors(_, _)
Survivors(layers, doc) ==
    LET kept == Kept(layers, doc)
    IN  [k \in 1..Len(kept) |->
            [ref |-> Val(findLayerByPath(doc, kept[k].id)).ref,
             below |-> IF IsSome(kept[k].children)
                       THEN Survivors(Val(kept[k].children), doc) ELSE <<>>]]

RECURSIVE SurvivorsFrom(_)
SurvivorsFrom(i) ==
    IF i > Len(activePayloads) THEN <<>>
    ELSE (IF IsSome(SourceOf(i)) THEN Survivors(activePayloads[i].layers, Val(SourceOf(i)))
          ELSE <<>>) \o SurvivorsFrom(i + 1)

\* a transformed layer of the list, at any depth, that the document lacks
RECURSIVE HasMiss(_, _)
HasMiss(layers, doc) ==
    \E k \in 1..Len(layers) :
        \/ ~IsSome(findLayerByPath(doc, layers[k].id))
        \/ IsSome(layers[k].children) /\ HasMiss(Val(layers[k].children), doc)

\* C15: a transformed layer whose id is not found in its payload's source
\* document is left out of the export, every other layer of that payload and
\* of the other payloads is rebuilt, in order; a miss neither ends the
\* reconstruction nor sets the export error (only the writer can).
C15_MissSkipped ==
    Exported =>
        /\ IsSome(newPsd)
        /\ OutRefs(Val(newPsd).children) = SurvivorsFrom(1)
        /\ exportError \in {None, Some(WRITE_FAILED)}

\* two payloads contribute; in the first, a layer inside a group is not
\* found and a later sibling of that group is
C15_Witness ==
    /\ Exported
    /\ exportError = None
    /\ Len(activePayloads) = 2
    /\ \A i \in 1..2 : Count(i) > 0
    /\ LET layers == activePayloads[1].layers
           doc == Val(SourceOf(1))
       IN  \E a, b \in 1..Len(layers) :
              /\ a < b
              /\ IsSome(findLayerByPath(doc, layers[a].id))
              /\ IsSome(layers[a].children)
              /\ HasMiss(Val(layers[a].children), doc)
              /\ IsSome(findLayerByPath(doc, layers[b].id))

\* the rebuilt layers of a list, field by field against the transformed
\* layers they come from and the originals they are found at
RECURSIVE FieldsRebuilt(_, _, _)
FieldsRebuilt(out, layers, doc) ==
    LET kept == Kept(layers, doc)
    IN  /\ Len(out) = Len(kept)
        /\ \A k \in 1..Len(kept) :
              LET o == out[k]
                  m == kept[k]
                  orig == Val(findLayerByPath(doc, m.id))
              IN  /\ o.top = m.coords.y
                  /\ o.left = m.coords.x
                  /\ o.bottom = Add(m.coords.y, m.coords.h)
                  /\ o.right = Add(m.coords.x, m.coords.w)
                  /\ o.hidden = ~m.isVisible
                  /\ o.opacity = Mul(m.opacity, Num(255))
                  /\ DOMAIN o = DOMAIN orig
                  /\ o.name = orig.name
                  /\ o.ref = orig.ref
                  /\ IF m.type = "group"
                     THEN /\ IsSome(o.children)
                          /\ FieldsRebuilt(Val(o.children), Val(m.children), doc)
                     ELSE o.children = None

\* C16: every transformed layer found in the source document is rebuilt with
\* top = coords.y, left = coords.x, bottom = coords.y + coords.h,
\* right = coords.x + coords.w, hidden = !isVisible, opacity = opacity * 255,
\* its children rebuilt from the transformed children when it is a group and
\* cleared otherwise, and every other field as in the original; the export
\* leaves the registered documents as they were.
C16_FieldsRebuilt ==
    /\ [](Exported =>
            \A i \in 1..Len(activePayloads) :
                IsSome(SourceOf(i)) =>
                    FieldsRebuilt(Segment(i), activePayloads[i].layers, Val(SourceOf(i))))
    /\ [][pc' = "exported" => psdRegistry' = psdRegistry]_vars

\* a group was rebuilt with a child inside, and a layer that is no group in
\* the payload was found at a group of the edited document
C16_Witness ==
    /\ Exported
    /\ \E i \in 1..Len(activePayloads) :
          /\ IsSome(SourceOf(i))
          /\ \E k \in 1..Count(i) :
                /\ IsSome(Segment(i)[k].children)
                /\ Len(Val(Segment(i)[k].children)) > 0
    /\ \E i \in 1..Len(activePayloads) :
          /\ IsSome(SourceOf(i))
          /\ \E k \in 1..Len(activePayloads[i].layers) :
                LET m == activePayloads[i].layers[k]
                    orig == findLayerByPath(Val(SourceOf(i)), m.id)
                IN  /\ m.type = "layer"
                    /\ IsSome(orig)
                    /\ IsSome(Val(orig).children)
                    /\ Len(Val(Val(orig).children)) > 0

(***************************************************************************)
(* Properties of the container definitions.                                *)
(***************************************************************************)
\* the children of the first top-level layer named exactly '!!TEMPLATE'
MarkerChildren ==
    LET at == {i \in 1..Len(TopGroups) : TopGroups[i].name = Some(TEMPLATE_NAME)}
    IN  IF at = {} THEN <<>>
        ELSE DirectChildren(TopGroups[CHOOSE i \in at : \A j \in at : i <= j])

\* C17: for every named child of the template group, name is the raw name
\* without its whole leading run of '!' and without surrounding whitespace,
\* and originalName is the raw name itself.
C17_NameStripped ==
    (Loaded /\ Len(Containers) = Len(MarkerChildren)) =>
        \A i \in 1..Len(MarkerChildren) :
            LET raw == MarkerChildren[i].name
            IN  (IsSome(raw) /\ Val(raw) # <<>>) =>
                    /\ Containers[i].name = Trim(StripMarkers(Val(raw)))
                    /\ Containers[i].originalName = Val(raw)

\* C18: one container per child of the top-level '!!TEMPLATE' layer, in
\* child order (each carries the edges and the raw name of its child); no
\* container when there is no such layer; children with the same cleaned
\* name are all kept and the ids, 'container-<index>-...', are pairwise
\* distinct.
C18_OnePerChild ==
    Loaded =>
        /\ Len(Containers) = Len(MarkerChildren)
        /\ \A i \in 1..Len(Containers) :
              LET c == Containers[i]
                  child == MarkerChildren[i]
                  head == CONTAINER_PREFIX \o IntToStr(i - 1) \o <<"-">>
              IN  /\ c.originalName = NameOr(child.name, UNTITLED)
                  /\ c.bounds.x = OrZero(child.left)
                  /\ c.bounds.y = OrZero(child.top)
                  /\ c.bounds.w = OrZero(child.right) - OrZero(child.left)
                  /\ c.bounds.h = OrZero(child.bottom) - OrZero(child.top)
                  /\ Len(c.id) >= Len(head)
                  /\ SubSeq(c.id, 1, Len(head)) = head
        /\ \A i, j \in 1..Len(Containers) : i # j => Containers[i].id # Containers[j].id

\* two children with the same cleaned name and different edges are both kept
C18_Witness ==
    /\ Loaded
    /\ Len(Containers) = 2
    /\ Containers[1].name = Containers[2].name
    /\ Containers[1].bounds # Containers[2].bounds
    /\ Containers[1].id # Containers[2].id

\* no template group, though a layer is named '!!template': no container
C18_WitnessNoTemplate ==
    /\ Loaded
    /\ \E i \in 1..Len(TopGroups) : TopGroups[i].name = Some(LOWER_TEMPLATE)
    /\ Containers = <<>>

\* C19: the canvas width and height are never 0 or missing: a document that
\* reports 0 or no size gets 1 for that dimension; every normalized
\* rectangle is finite and is the bounds divided by the canvas dimensions,
\* whatever the quotient (values above 1 are kept).
C19_CanvasNeverZero ==
    Loaded =>
        LET canvas == Val(template).canvas
        IN  /\ canvas.width \in Nat \ {0}
            /\ canvas.height \in Nat \ {0}
            /\ canvas.width = (IF psd.width \in {None, Some(0)} THEN 1 ELSE Val(psd.width))
            /\ canvas.height = (IF psd.height \in {None, Some(0)} THEN 1 ELSE Val(psd.height))
            /\ \A i \in 1..Len(Containers) :
                  LET c == Containers[i]
                  IN  /\ IsFinite(c.normalized.x) /\ IsFinite(c.normalized.y)
                      /\ IsFinite(c.normalized.w) /\ IsFinite(c.normalized.h)
                      /\ Mul(c.normalized.x, Num(canvas.width)) = Num(c.bounds.x)
                      /\ Mul(c.normalized.y, Num(canvas.height)) = Num(c.bounds.y)
                      /\ Mul(c.normalized.w, Num(canvas.width)) = Num(c.bounds.w)
                      /\ Mul(c.normalized.h, Num(canvas.height)) = Num(c.bounds.h)

\* a document without a width: the canvas is 1 wide and a container of
\* width 40 has the normalized width 40
C19_Witness ==
    /\ Loaded
    /\ psd.width = None
    /\ Val(template).canvas.width = 1
    /\ \E i \in 1..Len(Containers) :
          /\ Containers[i].bounds.w = 40
          /\ Containers[i].normalized.w = Num(40)

\* the first and the last container of a name
FirstOf(name) ==
    CHOOSE i \in 1..Len(Containers) :
        /\ Containers[i].name = name
        /\ \A j \in 1..(i - 1) : Containers[j].name # name
LastOf(name) ==
    CHOOSE i \in 1..Len(Containers) :
        /\ Containers[i].name = name
        /\ \A j \in (i + 1)..Len(Containers) : Containers[j].name # name
Shared(name) == \E i, j \in 1..Len(Containers) :
                    i # j /\ Containers[i].name = name /\ Containers[j].name = name

\* C20: when two containers share a name, the design group of that name is
\* validated against the bounds of the later one, and a context created by
\* that name has the bounds of the earlier one.
C20_LaterValidatesEarlierResolves ==
    Loaded =>
        \A n \in {Containers[i].name : i \in 1..Len(Containers)} :
            Shared(n) =>
                /\ \A gi \in 1..Len(TopGroups) :
                      LET g == TopGroups[gi]
                      IN  (g.name = Some(n) /\ n # <<>> /\ ~IsTemplate(g)) =>
                              \A li \in 1..Len(DirectChildren(g)) :
                                  LET l == DirectChildren(g)[li]
                                  IN  HasEdges(l) =>
                                          ((\E k \in 1..Len(Issues) :
                                               /\ Issues[k].layerName = NameOr(l.name, UNTITLED_LAYER)
                                               /\ Issues[k].containerName = n)
                                           <=> Overflows(l, Containers[LastOf(n)]))
                /\ (pc = "selected" /\ IsSome(containerContext)
                        /\ Val(containerContext).containerName = n) =>
                       Val(containerContext).bounds = Containers[FirstOf(n)].bounds

\* two containers named alike with different bounds; a layer of the design
\* group lies inside the earlier one and is flagged, another lies inside
\* the later one only and is not; the context has the earlier bounds
C20_Witness ==
    /\ pc = "selected"
    /\ Len(Containers) = 2
    /\ Containers[1].name = Containers[2].name
    /\ Containers[1].bounds # Containers[2].bounds
    /\ IsSome(containerContext)
    /\ Val(containerContext).bounds = Containers[1].bounds
    /\ \E gi \in 1..Len(TopGroups) :
          LET g == TopGroups[gi]
          IN  /\ g.name = Some(Containers[1].name)
              /\ Len(DirectChildren(g)) = 2
              /\ HasEdges(DirectChildren(g)[1]) /\ HasEdges(DirectChildren(g)[2])
              /\ ~Overflows(DirectChildren(g)[1], Containers[1])
              /\ Overflows(DirectChildren(g)[1], Containers[2])
              /\ Overflows(DirectChildren(g)[2], Containers[1])
              /\ ~Overflows(DirectChildren(g)[2], Containers[2])
              /\ Len(Issues) = 1
              /\ Issues[1].layerName = Val(DirectChildren(g)[1].name)

(***************************************************************************)
(* Properties of re-derivation.                                            *)
(***************************************************************************)
\* the path string of a route of sibling indices: 0.2.1
RECURSIVE RouteString(_)
RouteString(route) ==
    IF Len(route) = 0 THEN <<>>
    ELSE IF Len(route) = 1 THEN IntToStr(route[1])
    ELSE IntToStr(route[1]) \o <<".">> \o RouteString(Tail(route))

Strategic == pc = "done" /\ IsSome(layoutStrategy) /\ IsSome(payload)
\* the overrides of the strategy that name the layer
OverridesOf(l) ==
    {i \in 1..Len(Val(layoutStrategy).overrides) :
        Val(layoutStrategy).overrides[i].layerId = l.id}
\* where the strategy puts a layer before any override
GlobalX(l) ==
    Add(anchorXOf(SrcRect, TgtRect, Val(layoutStrategy).suggestedScale),
        Mul(Sub(l.coords.x, Num(SrcRect.x)), Val(layoutStrategy).suggestedScale))
GlobalY(l) ==
    Add(anchorYOf(SrcRect, TgtRect, Val(layoutStrategy).suggestedScale,
                  Val(layoutStrategy).anchor),
        Mul(Sub(l.coords.y, Num(SrcRect.y)), Val(layoutStrategy).suggestedScale))

RECURSIVE Total(_)
Total(i) == IF i = 0 THEN 0 ELSE Total(i - 1) + Count(i)

MaxLoads == 2

Resolve(value) == [call |-> "resolve", value |-> value, message |-> ""]
Reject(message) == [call |-> "reject", value |-> EmptyPsd, message |-> message]

\* the message of the Error that the catch block of reader.onload rejects with
parseErrorMessage(thrown) ==
    IF thrown = "Invalid signature"
    THEN "Invalid file format. The file does not appear to be a valid Adobe Photoshop file."
    ELSE IF thrown = "Out of bounds"
    THEN "The PSD file appears to be corrupted or truncated (Buffer out of bounds)."
    ELSE "PSD Parsing Error: bad"

\* mutant of parsePsdFile: the branch of the empty buffer does not return
parsePsdFileFallingThrough(file) ==
    IF ~IsSome(file) THEN <<Reject("No file provided for parsing.")>>
    ELSE LET f == Val(file)
         IN  IF f.io = "error"
             THEN <<Reject("Failed to read file from disk: Unknown IO error")>>
             ELSE IF f.io = "nobuffer"
             THEN <<Reject("FileReader failed to produce a valid ArrayBuffer.")>>
             ELSE (IF f.byteLength = 0
                   THEN <<Reject("The provided file is empty.")>> ELSE <<>>)
                  \o (IF IsSome(f.parsed)
                      THEN <<Resolve(Val(f.parsed))>>
                      ELSE <<Reject(parseErrorMessage(f.thrown))>>)

\* parsePsdFile(file): the calls of resolve and reject that the promise
\* executor and the reader's handlers make, in order
parsePsdFile(file) ==
    IF ~IsSome(file) THEN <<Reject("No file provided for parsing.")>>
    ELSE LET f == Val(file)
         IN  IF f.io = "error"
             THEN <<Reject("Failed to read file from disk: Unknown IO error")>>
             ELSE IF f.io = "nobuffer"
             THEN <<Reject("FileReader failed to produce a valid ArrayBuffer.")>>
             ELSE IF f.byteLength = 0
             THEN <<Reject("The provided file is empty.")>>
             ELSE IF IsSome(f.parsed)
             THEN <<Resolve(Val(f.parsed))>>
             ELSE <<Reject(parseErrorMessage(f.thrown))>>

\* the node data that handleFileChange writes once the promise has settled
\* with the given call
nodeDataAfter(file, settlement) ==
    IF settlement.call = "resolve"
    THEN LET parsedPsd == settlement.value
             templateData == extractTemplateMetadata(parsedPsd)
         IN  [fileName |-> Some(file.name),
              template |-> Some(templateData),
              validation |-> Some(mapLayersToContainers(parsedPsd, templateData)),
              designLayers |-> Some(IF IsSome(parsedPsd.children)
                                    THEN getCleanLayerTree(Val(parsedPsd.children), <<>>)
                                    ELSE <<>>),
              error |-> None]
    ELSE [fileName |-> Some(file.name),
          template |-> None, validation |-> None, designLayers |-> None,
          error |-> Some(IF settlement.message # "" THEN settlement.message
                         ELSE "Failed to parse PSD")]

LoaderDocuments == {EmptyPsd, SecondDocument}

File(name, io, byteLength, parsed, thrown) ==
    [name |-> name, io |-> io, byteLength |-> byteLength, parsed |-> parsed, thrown |-> thrown]

LoaderFiles ==
    UNION {{File(name, "ok", 1, Some(doc), "") : doc \in LoaderDocuments}
           \cup {File(name, "ok", 1, None, thrown) :
                    thrown \in {"Invalid signature", "Out of bounds", "bad"}}
           \cup {File(name, "ok", 0, None, "Invalid signature"),
                 File(name, "error", 1, None, ""),
                 File(name, "nobuffer", 1, None, "")} : name \in {"a.psd", "b.psd"}}

InitLoader ==
    /\ psd = EmptyPsd /\ designLayers = None /\ layerId = None /\ found = None
    /\ template = None /\ validation = None /\ containerContext = None
    /\ LoaderIdle
    /\ StoreIdle /\ GraphIdle /\ SyncIdle
    /\ layoutStrategy = None /\ sourceLayerGroup = None
    /\ pc = "idle"
    /\ RemapIdle
    /\ ResolverIdle
    /\ ExportIdle

\* handleFileChange up to the await: nothing happens without a file;
\* otherwise the flags are reset and the read of the file starts
SelectFile ==
    /\ Len(inFlight) < MaxLoads
    /\ \E file \in {None} \cup {Some(f) : f \in LoaderFiles} :
          IF ~IsSome(file)
          THEN UNCHANGED <<isLoading, localError, inFlight>>
          ELSE /\ isLoading' = TRUE
               /\ localError' = None
               /\ inFlight' = Append(inFlight, [file |-> Val(file), settled |-> FALSE])
    /\ UNCHANGED <<psd, designLayers, layerId, found, template, validation, containerContext,
                   fileName, nodeError, layoutStrategy, sourceLayerGroup, storeVars,
                   graphVars, syncVars, remapVars, resolverVars, exportVars, pc>>

\* the reader of one pending selection fires its event, the promise takes
\* the first call made on it, and handleFileChange runs from the await to
\* the end of its finally block
SettleParse ==
    /\ \E i \in 1..Len(inFlight) :
          /\ ~inFlight[i].settled
          /\ LET file == inFlight[i].file
                 data == nodeDataAfter(file, parsePsdFile(Some(file))[1])
             IN  /\ fileName' = data.fileName
                 /\ template' = data.template
                 /\ validation' = data.validation
                 /\ designLayers' = data.designLayers
                 /\ nodeError' = data.error
                 /\ localError' = IF IsSome(data.error) THEN data.error ELSE localError
          /\ inFlight' = [inFlight EXCEPT ![i].settled = TRUE]
    /\ isLoading' = FALSE
    /\ UNCHANGED <<psd, layerId, found, containerContext, layoutStrategy, sourceLayerGroup,
                   storeVars, graphVars, syncVars, remapVars, resolverVars, exportVars, pc>>

NextLoader == SelectFile \/ SettleParse

SpecLoader == InitLoader /\ [][NextLoader]_vars

(***************************************************************************)
(* Properties of file loading.                                             *)
(***************************************************************************)
LoadSucceeded ==
    /\ IsSome(template) /\ IsSome(validation) /\ IsSome(designLayers)
    /\ nodeError = None
LoadFailed ==
    /\ template = None /\ validation = None /\ designLayers = None
    /\ IsSome(nodeError) /\ Val(nodeError) # ""

Malformed(f) == f.io # "ok" \/ f.byteLength = 0 \/ ~IsSome(f.parsed)

\* C24: parsePsdFile settles exactly once, with a rejection that carries a
\* message when there is no file, the file is empty, cannot be read or does
\* not parse; every step that completes a load leaves the node either with
\* template, validation and designLayers set and no error, or with all three
\* null and an error message, and leaves isLoading false.
C24_LoadSettlesOnce ==
    /\ [](/\ parsePsdFile(None) = <<Reject("No file provided for parsing.")>>
          /\ \A i \in 1..Len(inFlight) :
                LET calls == parsePsdFile(Some(inFlight[i].file))
                IN  /\ Len(calls) = 1
                    /\ Malformed(inFlight[i].file)
                          <=> (calls[1].call = "reject" /\ calls[1].message # "")
          /\ IsSome(fileName) => (LoadSucceeded \/ LoadFailed)
          /\ ~(LoadSucceeded /\ LoadFailed))
    /\ [][inFlight' # inFlight /\ Len(inFlight') = Len(inFlight) =>
             /\ ~isLoading'
             /\ IsSome(fileName')
             /\ (LoadSucceeded' \/ LoadFailed')]_vars

\* an empty file was selected after a load that succeeded, and its load has
\* completed with the failure data
C24_Witness ==
    /\ Len(inFlight) = 2
    /\ inFlight[1].settled /\ inFlight[2].settled
    /\ ~Malformed(inFlight[1].file)
    /\ inFlight[2].file.byteLength = 0
    /\ LoadFailed
    /\ nodeError = Some("The provided file is empty.")
    /\ ~isLoading

MantissaBits == 10

RECURSIVE Normalised(_, _, _)
\* <<m, d, e>> with n/d = (m/d) * 2^e and 2^(MantissaBits-1) <= m/d < 2^MantissaBits
Normalised(n, d, e) ==
    IF n < Pow2(MantissaBits - 1) * d THEN Normalised(2 * n, d, e - 1)
    ELSE IF n >= Pow2(MantissaBits) * d THEN Normalised(n, 2 * d, e + 1)
    ELSE <<n, d, e>>

\* the representable number nearest to a, ties to the even mantissa
Fl(a) ==
    IF a.k # "fin" \/ a.n = 0 THEN a
    ELSE LET t == Normalised(Abs(a.n), a.d, 0)
             q == t[1] \div t[2]
             r == t[1] % t[2]
             m == IF 2 * r > t[2] \/ (2 * r = t[2] /\ q % 2 = 1) THEN q + 1 ELSE q
         IN  IF t[3] >= 0 THEN Frac(Sign(a.n) * m * Pow2(t[3]), 1)
             ELSE Frac(Sign(a.n) * m, Pow2(-t[3]))

\* Math.min(ratioX, ratioY) on rounded quotients
scaleOfRounded(sourceRect, targetRect) ==
    MathMin(Fl(ratioX(sourceRect, targetRect)), Fl(ratioY(sourceRect, targetRect)))

\* the body of transformLayers' map callback, every operation rounded
transformOneRounded(layer, sourceRect, targetRect, scale) ==
    LET relX == Fl(Div(Fl(Sub(layer.coords.x, Num(sourceRect.x))), Num(sourceRect.w)))
        relY == Fl(Div(Fl(Sub(layer.coords.y, Num(sourceRect.y))), Num(sourceRect.h)))
        newX == Fl(Add(Num(targetRect.x), Fl(Mul(relX, Num(targetRect.w)))))
        newY == Fl(Add(Num(targetRect.y), Fl(Mul(relY, Num(targetRect.h)))))
        newW == Fl(Mul(layer.coords.w, scale))
        newH == Fl(Mul(layer.coords.h, scale))
    IN  [id |-> layer.id, name |-> layer.name, type |-> layer.type,
         isVisible |-> layer.isVisible, opacity |-> layer.opacity,
         coords |-> [x |-> newX, y |-> newY, w |-> newW, h |-> newH],
         transform |-> [scaleX |-> scale, scaleY |-> scale,
                        offsetX |-> newX, offsetY |-> newY]]

RECURSIVE transformLayersRounded(_, _, _, _)
transformLayersRounded(layers, sourceRect, targetRect, scale) ==
    [i \in 1..Len(layers) |->
        LET layer == layers[i]
            t == transformOneRounded(layer, sourceRect, targetRect, scale)
        IN  [id |-> t.id, name |-> t.name, type |-> t.type,
             isVisible |-> t.isVisible, opacity |-> t.opacity,
             coords |-> t.coords, transform |-> t.transform,
             children |-> IF IsSome(layer.children)
                          THEN Some(transformLayersRounded(Val(layer.children),
                                                           sourceRect, targetRect, scale))
                          ELSE None]]

transformationPayloadRounded(src, tgt) ==
    IF ~IsSome(src) \/ ~IsSome(tgt) THEN None
    ELSE LET sourceRect == Val(src).originalBounds
             targetRect == Val(tgt).bounds
             scale == scaleOfRounded(sourceRect, targetRect)
         IN  Some([status |-> "success",
                   sourceNodeId |-> Val(src).sourceNodeId,
                   sourceContainer |-> Val(src).containerName,
                   targetContainer |-> Val(tgt).containerName,
                   layers |-> transformLayersRounded(Val(src).layers, sourceRect,
                                                     targetRect, scale),
                   scaleFactor |-> scale,
                   metrics |-> [source |-> [w |-> sourceRect.w, h |-> sourceRect.h],
                                target |-> [w |-> targetRect.w, h |-> targetRect.h]]])

(***************************************************************************)
(* Pipeline runs: a document is loaded, its design layers are remapped     *)
(* from one rectangle into another, and the payload is exported against    *)
(* the same document.  The sums and the product of the export are exact    *)
(* in the model; left and top are copied from the payload as they are.     *)
(***************************************************************************)
PipelineSizes == {13, 25, 32}
PipelineRects == {Rect(0, 0, w, h) : w \in PipelineSizes, h \in PipelineSizes}
PipelineBoxes == {<<0, 0, 8, 8>>, <<7, 7, 18, 18>>, <<10, 10, 3, 3>>}

\* a template group or none, a layer, and a group that holds a layer and a
\* layer without edges
PipelineDocuments ==
    {[width |-> Some(100), height |-> Some(100),
      children |-> Some(front \o
                        <<PsdLayer(<<"a">>, a, None, None, None, <<"a">>),
                          PsdLayer(<<"g">>, <<0, 0, 13, 13>>, Some(TRUE), Some(51),
                                   Some(<<PsdLayer(<<"b">>, b, None, Some(128), None, <<"g", "b">>),
                                          Leaf(Some(<<"n">>), None, Some(0), Some(9), None,
                                               None, <<"g", "n">>)>>),
                                   <<"g">>)>>)] :
        front \in {<<>>, <<Leaf(Some(TEMPLATE_NAME), None, None, None, None, None, <<"t">>)>>},
        a \in PipelineBoxes, b \in PipelineBoxes}

InitPipeline ==
    /\ psd \in PipelineDocuments
    /\ designLayers = None /\ layerId = None /\ found = None
    /\ template = None /\ validation = None /\ containerContext = None
    /\ pc = "idle"
    /\ RemapIdle
    /\ ResolverIdle
    /\ ExportIdle
    /\ HostIdle

\* the remapper computes its payload for the design layers of the document
RemapDesign ==
    /\ pc = "loaded"
    /\ \E sourceRect \in PipelineRects, targetRect \in PipelineRects :
          LET src == Some([sourceNodeId |-> "psd-1", containerName |-> "S",
                           layers |-> Val(designLayers), originalBounds |-> sourceRect])
              tgt == Some([containerName |-> "T", bounds |-> targetRect])
          IN  /\ sourceData' = src
              /\ targetData' = tgt
              /\ payload' = transformationPayloadRounded(src, tgt)
    /\ pc' = "remapped"
    /\ UNCHANGED <<treeVars, resolverVars, exportVars, hostVars>>

\* handleExport with the remapper's payload and the loaded document registered
ExportDesign ==
    /\ pc = "remapped"
    /\ activePayloads' = <<Val(payload)>>
    /\ psdRegistry' = [id \in {"psd-1"} |-> psd]
    /\ newPsd' = Some([width |-> Val(template).canvas.width,
                       height |-> Val(template).canvas.height,
                       children |-> finalChildrenFrom(activePayloads', psdRegistry', 1)])
    /\ \E written \in BOOLEAN :
          exportError' = IF written THEN None ELSE Some(WRITE_FAILED)
    /\ pc' = "exported"
    /\ UNCHANGED <<treeVars, remapVars, resolverVars, hostVars>>

NextPipeline == LoadDocument \/ RemapDesign \/ ExportDesign

SpecPipeline == InitPipeline /\ [][NextPipeline]_vars

(***************************************************************************)
(* Properties of the pipeline.                                             *)
(***************************************************************************)
Inside(l, rect) ==
    /\ Leq(Num(rect.x), l.coords.x)
    /\ Leq(Num(rect.y), l.coords.y)
    /\ Leq(Fl(Add(l.coords.x, l.coords.w)), Num(rect.x + rect.w))
    /\ Leq(Fl(Add(l.coords.y, l.coords.h)), Num(rect.y + rect.h))

\* C25: for a source rectangle of positive width and height, every layer at
\* any depth that lies inside the source rectangle is mapped to a rectangle
\* that lies inside the target rectangle.
C25_ContainmentPreserved ==
    (pc \in {"remapped", "exported"} /\ SrcRect.w > 0 /\ SrcRect.h > 0) =>
        \A k \in 1..Len(InLayers) :
            Inside(InLayers[k], SrcRect) => Inside(OutLayers[k], TgtRect)

RECURSIVE SameAsOriginal(_, _)
\* the rebuilt layers are the non-template originals, in order and nesting,
\* with their edges (when all four are present), visibility and opacity
SameAsOriginal(outs, origs) ==
    LET kept == SelectSeq(origs, LAMBDA l : ~IsTemplate(l))
    IN  /\ Len(outs) = Len(kept)
        /\ \A i \in 1..Len(kept) :
              LET o == outs[i]
                  l == kept[i]
              IN  /\ o.ref = l.ref
                  /\ HasEdges(l) =>
                        /\ o.top = Num(Val(l.top)) /\ o.left = Num(Val(l.left))
                        /\ o.bottom = Num(Val(l.bottom)) /\ o.right = Num(Val(l.right))
                  /\ o.hidden = (l.hidden = Some(TRUE))
                  /\ o.opacity = Num(IF IsSome(l.opacity) THEN Val(l.opacity) ELSE 255)
                  /\ IF IsSome(l.children)
                     THEN /\ IsSome(o.children)
                          /\ SameAsOriginal(Val(o.children), Val(l.children))
                     ELSE o.children = None

\* C27: a document that is converted, remapped with the same rectangle as
\* source and target, and rebuilt against itself comes back with the edges,
\* the visibility and the opacity of every non-template layer that has all
\* four edges, in the same order and nesting.
C27_PipelineRoundTrip ==
    (pc = "exported" /\ SrcRect = TgtRect) =>
        SameAsOriginal(Val(newPsd).children, Val(psd.children))

(***************************************************************************)
(* Properties of the remapper's own lookup.                                *)
(***************************************************************************)
\* C26: the design group that RemapperNode finds for the container name of
\* its channel is the layer that resolveLayer returned for that name.
C26_LocalLookupAgrees ==
    pc = "traced" => sourceLayerGroup = matchedGroup

(***************************************************************************)
(* The graph of the App: onConnect validates a connection against the      *)
(* types of its end nodes and replaces the edge on the target handle.      *)
(* A handle is None (null or undefined) or Some(string).                   *)
(***************************************************************************)
MaxConnects == 3

\* initialNodes: the type of every node
nodeType ==
    [n \in {"node-1", "node-target-1", "node-2", "node-3", "node-4",
            "node-remapper-1", "node-5"} |->
        CASE n = "node-1" -> "loadPsd"
          [] n = "node-target-1" -> "targetTemplate"
          [] n = "node-2" -> "designInfo"
          [] n = "node-3" -> "templateSplitter"
          [] n = "node-4" -> "containerResolver"
          [] n = "node-remapper-1" -> "remapper"
          [] n = "node-5" -> "targetSplitter"]

Edge(source, sourceHandle, target, targetHandle) ==
    [source |-> source, sourceHandle |-> sourceHandle,
     target |-> target, targetHandle |-> targetHandle]

initialEdges ==
    {Edge("node-1", None, "node-2", None), Edge("node-1", None, "node-3", None)}

\* handle || null: an empty handle id counts as no handle
orNull(handle) == IF handle = Some("") THEN None ELSE handle

\* the early returns of onConnect
rejected(params) ==
    LET sourceType == nodeType[params.source]
        targetType == nodeType[params.target]
    IN  \/ /\ targetType = "targetSplitter"
           /\ IF params.targetHandle = Some("template-input")
              THEN sourceType # "targetTemplate"
              ELSE sourceType # "remapper" /\ sourceType # "containerResolver"
        \/ /\ targetType = "remapper"
           /\ IF params.targetHandle = Some("template-input")
              THEN sourceType # "targetTemplate"
              ELSE /\ params.targetHandle = Some("source-input")
                   /\ sourceType # "containerResolver"

\* mutant of cleanEdges: no edge is removed
cleanEdgesKeepingAll(eds, params) == eds

\* the edges that do not end on the target handle of the connection
cleanEdges(eds, params) ==
    {edge \in eds : edge.target # params.target
                    \/ orNull(edge.targetHandle) # orNull(params.targetHandle)}

\* addEdge of reactflow: the edges as they are when an edge between the same
\* handles of the same nodes exists, with the new edge otherwise
addEdge(params, eds) ==
    IF \E el \in eds :
          /\ el.source = params.source /\ el.target = params.target
          /\ orNull(el.sourceHandle) = orNull(params.sourceHandle)
          /\ orNull(el.targetHandle) = orNull(params.targetHandle)
    THEN eds
    ELSE eds \cup {Edge(params.source, params.sourceHandle,
                        params.target, params.targetHandle)}

Connections ==
    {Edge(source, None, target, targetHandle) :
        source \in {"node-1", "node-target-1", "node-4", "node-remapper-1"},
        target \in {"node-3", "node-remapper-1", "node-5"},
        targetHandle \in {None, Some(""), Some("template-input"), Some("source-input")}}

InitConnect ==
    /\ edges = initialEdges
    /\ connects = 0
    /\ pc = "idle"
    /\ layoutStrategy = None /\ sourceLayerGroup = None
    /\ StoreIdle /\ LoaderIdle /\ SyncIdle
    /\ RemapIdle
    /\ TreeIdle
    /\ ResolverIdle
    /\ ExportIdle

onConnect ==
    /\ connects < MaxConnects
    /\ \E params \in Connections :
          edges' = IF rejected(params) THEN edges
                   ELSE addEdge(params, cleanEdges(edges, params))
    /\ connects' = connects + 1
    /\ UNCHANGED <<remapVars, treeVars, resolverVars, exportVars, layoutStrategy,
                   sourceLayerGroup, storeVars, loaderVars, syncVars, pc>>

NextConnect == onConnect

SpecConnect == InitConnect /\ [][NextConnect]_vars

(***************************************************************************)
(* Properties of the graph.                                                *)
(***************************************************************************)
SameHandle(e, f) ==
    e.target = f.target /\ orNull(e.targetHandle) = orNull(f.targetHandle)

\* the node-type rules, as the edges show them
Lawful(e) ==
    /\ (nodeType[e.target] = "targetSplitter" /\ e.targetHandle = Some("template-input"))
          => nodeType[e.source] = "targetTemplate"
    /\ (nodeType[e.target] = "targetSplitter" /\ e.targetHandle # Some("template-input"))
          => nodeType[e.source] \in {"remapper", "containerResolver"}
    /\ (nodeType[e.target] = "remapper" /\ e.targetHandle = Some("template-input"))
          => nodeType[e.source] = "targetTemplate"
    /\ (nodeType[e.target] = "remapper" /\ e.targetHandle = Some("source-input"))
          => nodeType[e.source] = "containerResolver"

\* C28: no two edges end on the same handle of the same node (a missing
\* handle counting as null); a connection either leaves the edges as they
\* are, or adds its edge after removing the edge that ended on its target
\* handle; and no edge breaks the node-type rules.
C28_OneEdgePerTargetHandle ==
    /\ [](/\ \A e, f \in edges : SameHandle(e, f) => e = f
          /\ \A e \in edges : Lawful(e))
    /\ [][connects' # connects =>
             \/ edges' = edges
             \/ \E new \in edges' \ edges :
                   edges' = {e \in edges : ~SameHandle(e, new)} \cup {new}]_vars

\* the initial edge into the template splitter was replaced by an edge from
\* the target template, and the remapper has its source input connected
C28_Witness ==
    /\ Edge("node-1", None, "node-3", None) \notin edges
    /\ Edge("node-target-1", None, "node-3", Some("")) \in edges
    /\ Edge("node-4", None, "node-remapper-1", Some("source-input")) \in edges
    /\ Cardinality(edges) = 3

(***************************************************************************)
(* Reactive synchronisation.  RemapperNode's sync effect copies the        *)
(* computed payload into its node data when the two differ as JSON; the    *)
(* effect runs at mount and again whenever data.transformedPayload has     *)
(* changed.  DesignAnalystNode's pass-through effect registers its source  *)
(* context and a synthetic template in the store, whose register functions *)
(* keep the previous state for a JSON-equal value.  The payload in the     *)
(* node data is None while the property is undefined, Some(None) for null  *)
(* and Some(Some(p)) for a payload.                                        *)
(***************************************************************************)
MaxWrites == 2

JSON_NULL == [k |-> "null", n |-> 0, d |-> 1]
\* JSON.stringify of a number: NaN and the infinities are written as null
jsonNumber(a) == IF IsFinite(a) THEN a ELSE JSON_NULL

RECURSIVE jsonLayers(_)
\* JSON.stringify of a layer list: a property that is undefined is left out,
\* as None is here
jsonLayers(layers) ==
    [i \in 1..Len(layers) |->
        [f \in DOMAIN layers[i] |->
            CASE f = "opacity" -> jsonNumber(layers[i][f])
              [] f \in {"coords", "transform"} ->
                    [c \in DOMAIN layers[i][f] |-> jsonNumber(layers[i][f][c])]
              [] f = "children" ->
                    IF IsSome(layers[i][f]) THEN Some(jsonLayers(Val(layers[i][f]))) ELSE None
              [] OTHER -> layers[i][f]]]

\* JSON.stringify(value) of a payload slot: undefined, 'null' or the text of
\* the payload
stringifyPayload(slot) ==
    IF ~IsSome(slot) THEN <<"undefined">>
    ELSE IF ~IsSome(Val(slot)) THEN <<"null">>
    ELSE LET p == Val(Val(slot))
         IN  <<"object", [p EXCEPT !.layers = jsonLayers(p.layers),
                                   !.scaleFactor = jsonNumber(p.scaleFactor)]>>

\* JSON.stringify of a MappingContext or of a TemplateMetadata
stringifyContext(ctx) == [ctx EXCEPT !.layers = jsonLayers(ctx.layers)]
stringifyTemplate(tpl) == tpl

\* mutant of isDifferent: the payloads are compared as objects, and the
\* computed one is a new object on every render
isDifferentByReference(currentPayload, computed) == TRUE

\* JSON.stringify(currentPayload) !== JSON.stringify(transformationPayload)
isDifferent(currentPayload, computed) ==
    stringifyPayload(currentPayload) # stringifyPayload(Some(computed))

\* the state that registerTemplate's updater returns
registerTemplate(prev, nodeId, tpl) ==
    IF nodeId \in DOMAIN prev /\ stringifyTemplate(prev[nodeId]) = stringifyTemplate(tpl)
    THEN prev
    ELSE [id \in DOMAIN prev \cup {nodeId} |-> IF id = nodeId THEN tpl ELSE prev[id]]

\* the state that registerResolved's updater returns
registerResolved(prev, nodeId, handleId, context) ==
    LET nodeRecord == IF nodeId \in DOMAIN prev THEN prev[nodeId] ELSE <<>>
    IN  IF handleId \in DOMAIN nodeRecord
           /\ stringifyContext(nodeRecord[handleId]) = stringifyContext(context)
        THEN prev
        ELSE [id \in DOMAIN prev \cup {nodeId} |->
                IF id = nodeId
                THEN [h \in DOMAIN nodeRecord \cup {handleId} |->
                        IF h = handleId THEN context ELSE nodeRecord[h]]
                ELSE prev[id]]

\* the syntheticTemplate of the pass-through effect
syntheticTemplate(target) ==
    [canvas |-> [width |-> 1000, height |-> 1000], containers |-> <<target>>]

SyncSources ==
    {None} \cup
    {Some([sourceNodeId |-> "psd-1", containerName |-> "S",
           layers |-> ResolvedLayers(c), originalBounds |-> r]) :
        c \in {ch \in DesignChildren : Len(ch) <= 1},
        r \in {Rect(0, 0, 50, 50), Rect(0, 0, 0, 50)}}
SyncTargets ==
    {None} \cup {Some([containerName |-> "T", bounds |-> r]) :
                    r \in {Rect(0, 0, 50, 50), Rect(0, 0, 100, 50), Rect(0, 0, 0, 0)}}

InitSync ==
    /\ sourceData \in SyncSources
    /\ targetData \in SyncTargets
    /\ payload = None
    /\ \E staleSource \in SyncSources, staleTarget \in SyncTargets :
          /\ storedPayload \in {None, Some(transformationPayload(staleSource, staleTarget))}
          /\ \/ templateRegistry = <<>> /\ resolvedRegistry = <<>>
             \/ /\ IsSome(staleSource) /\ IsSome(staleTarget)
                /\ templateRegistry =
                      [id \in {"analyst-1"} |-> syntheticTemplate(Val(staleTarget))]
                /\ resolvedRegistry =
                      [id \in {"analyst-1"} |-> [h \in {"source-out"} |-> Val(staleSource)]]
    /\ writes = 0
    /\ pc = "idle"
    /\ layoutStrategy = None /\ sourceLayerGroup = None
    /\ LoaderIdle /\ GraphIdle
    /\ TreeIdle
    /\ ResolverIdle
    /\ ExportIdle

\* one run of the sync effect with its animation frame: at mount, and again
\* after data.transformedPayload has changed
SyncEffect ==
    /\ pc \in {"idle", "written"}
    /\ writes < MaxWrites
    /\ LET transformationResult == transformationPayload(sourceData, targetData)
       IN  /\ payload' = transformationResult
           /\ IF isDifferent(storedPayload, transformationResult)
              THEN /\ storedPayload' = Some(transformationResult)
                   /\ writes' = writes + 1
                   /\ pc' = "written"
              ELSE /\ UNCHANGED <<storedPayload, writes>>
                   /\ pc' = "settled"
    /\ UNCHANGED <<sourceData, targetData, treeVars, resolverVars, exportVars,
                   layoutStrategy, sourceLayerGroup, storeVars, loaderVars, graphVars>>

\* one run of the pass-through effect of the analyst between the resolver
\* and the remapper
PassThrough ==
    /\ resolvedRegistry' = IF IsSome(sourceData)
                           THEN registerResolved(resolvedRegistry, "analyst-1",
                                                 "source-out", Val(sourceData))
                           ELSE resolvedRegistry
    /\ templateRegistry' = IF IsSome(targetData)
                           THEN registerTemplate(templateRegistry, "analyst-1",
                                                 syntheticTemplate(Val(targetData)))
                           ELSE templateRegistry
    /\ UNCHANGED <<remapVars, treeVars, resolverVars, exportVars, layoutStrategy,
                   sourceLayerGroup, loaderVars, graphVars, syncVars, pc>>

NextSync == SyncEffect \/ PassThrough

SpecSync == InitSync /\ [][NextSync]_vars

(***************************************************************************)
(* Properties of the synchronisation.                                      *)
(***************************************************************************)
Registered(registry, nodeId) == IF nodeId \in DOMAIN registry THEN Some(registry[nodeId]) ELSE None

====
